---- MODULE Spec2Model ----
(***************************************************************************)
(* Analyzer subsystem of cli-testing-specialist: the safe execution gate   *)
(* (utils/validator.rs), its pre-exec resource-limit hook, recursive       *)
(* subcommand discovery (analyzer/subcommand_detector.rs), top-level       *)
(* analysis (analyzer/cli_parser.rs) and the no-args behaviour classifier  *)
(* (analyzer/behavior_inferrer.rs).                                        *)
(*                                                                         *)
(* Each component is a state machine of its own over its own variables;    *)
(* a component's specification leaves the other components' variables at   *)
(* their initial values.                                                   *)
(***************************************************************************)
EXTENDS Integers, Sequences, FiniteSets, TLC

VARIABLES
    \* ---- execute_with_timeout_and_limits (utils/validator.rs) ----
    epc,        \* position of the calling thread inside the function
    timeout,    \* the timeout argument, in poll intervals (50 ms each)
    elapsed,    \* start.elapsed(), in poll intervals
    child,      \* the child process: none | running | zombie | reaped
    killSent,   \* child.kill() delivered SIGKILL
    toWrite,    \* output units the child still has to write to stdout
    pipeBuf,    \* units sitting in the stdout pipe
    captured,   \* units the parent has read from the stdout pipe
    errOut,     \* the child wrote something to stderr
    holder,     \* a descendant of the child holds the pipes' write ends
    forked,     \* the child has forked that descendant
    eresult,    \* the value execute_with_timeout returns
    spawned,    \* configuration of every process spawned so far
    \* ---- the pre_exec closure, run in the child between fork and exec ----
    hidx,       \* index in HookOrder of the resource handled next
    useLimits,  \* the limits argument is Some(..)
    ceiling,    \* max_memory_bytes, max_file_descriptors, max_processes
    inherited,  \* the limits the child inherited from the analyzer
    rl,         \* the child's current limits
    setFailed,  \* resources whose setrlimit returned non-zero
    hookRet,    \* what the closure returned: pending | Ok | Err
    spawnRet,   \* what spawn() returned: pending | Ok | Err
    \* ---- SubcommandDetector::detect (analyzer/subcommand_detector.rs) ----
    dphase,     \* start | run | done
    max_depth,  \* SubcommandDetector.max_depth
    dstack,     \* the activations of detect_recursive, innermost last
    visited,    \* the visited set shared by all activations
    scannedAt,  \* depths at which parse_subcommands has been called
    probedAt,   \* depths of the candidates whose help has been probed
    dret,       \* the value detect() returned
    \* ---- CliParser::analyze (analyzer/cli_parser.rs) ----
    apc,        \* position inside analyze()
    hk,         \* help probes issued by execute_help so far
    vk,         \* version probes issued by try_get_version so far
    help_output,  \* the help text execute_help returned
    version,    \* Option<String>: "None" or "Some"
    subcommands,  \* names of the top-level nodes detect() returned
    global_options,  \* what parse_options made of the top-level help text
    aresult,    \* the value analyze() returns
    \* ---- BehaviorInferrer::infer_no_args_behavior ----
    ipc,        \* position inside infer_no_args_behavior
    binary_name,  \* analysis.binary_name
    usage_lines,  \* analysis.help_output: the captures of its Usage: lines
    has_subcommands,  \* !analysis.subcommands.is_empty()
    mspawned,   \* the processes execute_and_measure has spawned
    mchild,     \* the no-args child: none | running | zombie | reaped
    mstatus,    \* what wait_timeout returned: <<>> for None, <<s>> for Some(s)
    verdict,    \* the NoArgsBehavior returned
    \* ---- CliParser::parse_options ----
    ppc,        \* position inside parse_options
    plines,     \* help_output.lines(), as what the regexes find on each
    pidx,       \* the line the for loop is at
    seen_options,  \* HashSet of option keys
    poptions,   \* the options vector being built
    \* ---- OptionInferrer::infer_types, apply_numeric_constraints ----
    tpc,        \* infer | load | apply | done
    patterns,   \* OptionInferrer.patterns
    settings,   \* OptionInferrer.settings
    default_type,  \* OptionInferrer.default_type
    toptions,   \* the options slice both functions work on
    tidx,       \* the option the for loop is at
    ncfg,       \* load_numeric_constraints_config(): unloaded | Ok | Err
    \* ---- the configuration caches (analyzer/option_inferrer.rs) ----
    cthread,    \* each thread's call: position, cache and config_path
    mutex,      \* owner of each cache's Mutex, or "free"
    cache,      \* content of each cache: None or Some(table)
    reads,      \* read_to_string calls made for each cache
    loads,      \* times each cache was assigned a parsed table
    returned,   \* the tables handed to callers from each cache
    ncalls,     \* calls started so far
    \* ---- TestGenerator::generate_with_strategy ----
    spc,        \* choose | generate | done
    categories, \* TestGenerator.categories
    num_global_options,  \* analysis.global_options.len()
    num_subcommands,     \* analysis.subcommands.len()
    num_cpus,   \* num_cpus::get()
    strategy,   \* the ParallelStrategy chosen
    generated,  \* positions of `categories` whose tests are generated
    ran,        \* where each category and its tests were generated
    \* ---- BatsExecutor::run_tests ----
    bpc,        \* loop | await | drop | returned
    bats_files, \* the sorted, filtered list of suite files
    hangs,      \* the files whose bats process never finishes
    bidx,       \* the file the for loop is at
    bats,       \* each file's bats process: none | running | exited
    suites,     \* the suites vector of the report
    timed_out   \* the files whose execute_suite returned the timeout error

execVars == <<epc, timeout, elapsed, child, killSent, toWrite, pipeBuf,
              captured, errOut, holder, forked, eresult, spawned>>

hookVars == <<hidx, useLimits, ceiling, inherited, rl, setFailed, hookRet,
              spawnRet>>

detVars == <<dphase, max_depth, dstack, visited, scannedAt, probedAt, dret>>

anVars == <<apc, hk, vk, help_output, version, subcommands, global_options,
            aresult>>

infVars == <<ipc, binary_name, usage_lines, has_subcommands, mspawned, mchild,
             mstatus, verdict>>

parseVars == <<ppc, plines, pidx, seen_options, poptions>>

typeVars == <<tpc, patterns, settings, default_type, toptions, tidx, ncfg>>

cacheVars == <<cthread, mutex, cache, reads, loads, returned, ncalls>>

stratVars == <<spc, categories, num_global_options, num_subcommands,
               num_cpus, strategy, generated, ran>>

batsVars == <<bpc, bats_files, hangs, bidx, bats, suites, timed_out>>

vars == <<execVars, hookVars, detVars, anVars, infVars, parseVars, typeVars,
          cacheVars, stratVars, batsVars>>

\* what each component leaves alone
notExec == <<hookVars, detVars, anVars, infVars, parseVars, typeVars,
             cacheVars, stratVars, batsVars>>
notHook == <<execVars, detVars, anVars, infVars, parseVars, typeVars,
             cacheVars, stratVars, batsVars>>
notDet == <<execVars, hookVars, anVars, infVars, parseVars, typeVars,
            cacheVars, stratVars, batsVars>>
notAn == <<execVars, hookVars, detVars, infVars, parseVars, typeVars,
           cacheVars, stratVars, batsVars>>
notInf == <<execVars, hookVars, detVars, anVars, parseVars, typeVars,
            cacheVars, stratVars, batsVars>>
notParse == <<execVars, hookVars, detVars, anVars, infVars, typeVars,
              cacheVars, stratVars, batsVars>>
notTypes == <<execVars, hookVars, detVars, anVars, infVars, parseVars,
              cacheVars, stratVars, batsVars>>
notCache == <<execVars, hookVars, detVars, anVars, infVars, parseVars,
              typeVars, stratVars, batsVars>>
notStrat == <<execVars, hookVars, detVars, anVars, infVars, parseVars,
              typeVars, cacheVars, batsVars>>
notBats == <<execVars, hookVars, detVars, anVars, infVars, parseVars,
             typeVars, cacheVars, stratVars>>

--------------------------------------------------------------------------
(* Bounds of the model *)

\* most lines of a help text given to parse_options
MaxOptLines == 3

\* most rules in OptionInferrer.patterns
MaxRules == 2

\* most options given to infer_types
MaxOptions == 1

\* most calls into the configuration caches, over all threads
MaxCalls == 3

\* longest list of categories a generator is built with
MaxCategories == 3

\* most global options and most subcommands of an analysis
MaxGlobalOptions == 40
MaxSubcommands == 11

\* most CPU cores num_cpus::get() reports
MaxCpus == 4

\* most .bats files in a test directory
MaxSuites == 3


\* largest timeout argument, in poll intervals
MaxTimeout == 2
\* largest amount of output a child writes, in units
MaxOut == 2
\* how long past the timeout the clock is followed while a call is blocked
MaxOverrun == 3

\* capacity of a pipe in units (the kernel's pipe buffer; 64 KiB on Linux)
PipeCap == 1
\* largest finite resource limit
MaxLim == 1
\* largest number of lines of a help text
MaxLines == 3

\* largest number of Usage: lines of a help text
MaxUsageLines == 2

\* const MAX_RECURSION_DEPTH: u8 = 3
MAX_RECURSION_DEPTH == 3

--------------------------------------------------------------------------
(* Process configuration *)

NoColorEnv == {<<"NO_COLOR", "1">>, <<"TERM", "dumb">>}

\* The Command built by execute_with_timeout_and_limits: args, stdout and
\* stderr piped; stdin and the environment are left at Command's defaults,
\* which for spawn() is to inherit both from the calling process.
ExecCommand ==
    [stdin |-> "inherit", stdout |-> "piped", stderr |-> "piped", env |-> {}]

--------------------------------------------------------------------------
(* Results *)

NoResult == [kind |-> "none"]
OkOutput(out) == [kind |-> "Ok", output |-> out]
ErrIo == [kind |-> "Io"]
ErrTimeout == [kind |-> "ExecutionFailed", msg |-> "Timeout"]

--------------------------------------------------------------------------
(* execute_with_timeout_and_limits *)

ExecInit ==
    /\ epc = "spawn"
    /\ timeout \in 0..MaxTimeout
    /\ elapsed = 0
    /\ child = "none"
    /\ killSent = FALSE
    /\ toWrite \in 0..MaxOut
    /\ pipeBuf = 0
    /\ captured = 0
    /\ errOut \in BOOLEAN
    /\ holder = FALSE
    /\ forked = FALSE
    /\ eresult = NoResult
    /\ spawned = {}

\* command.spawn()?  -- an io error returns at once
SpawnFails ==
    /\ epc = "spawn"
    /\ epc' = "done"
    /\ eresult' = ErrIo
    /\ UNCHANGED <<timeout, elapsed, child, killSent, toWrite, pipeBuf,
                   captured, errOut, holder, forked, spawned>>
    /\ UNCHANGED notExec

SpawnChild ==
    /\ epc = "spawn"
    /\ child' = "running"
    /\ spawned' = spawned \cup {ExecCommand}
    /\ epc' = "poll"
    /\ UNCHANGED <<timeout, elapsed, killSent, toWrite, pipeBuf, captured,
                   errOut, holder, forked, eresult>>
    /\ UNCHANGED notExec

\* child.try_wait()?  -- Some(status) reaps an exited child
TryWait ==
    /\ epc = "poll"
    /\ IF child = "zombie"
          THEN child' = "reaped" /\ epc' = "read"
          ELSE child' = child /\ epc' = "check"
    /\ UNCHANGED <<timeout, elapsed, killSent, toWrite, pipeBuf, captured,
                   errOut, holder, forked, eresult, spawned>>
    /\ UNCHANGED notExec

\* None => if start.elapsed() >= timeout
CheckTimeout ==
    /\ epc = "check"
    /\ epc' = IF elapsed >= timeout THEN "kill" ELSE "sleep"
    /\ UNCHANGED <<timeout, elapsed, child, killSent, toWrite, pipeBuf,
                   captured, errOut, holder, forked, eresult, spawned>>
    /\ UNCHANGED notExec

\* std::thread::sleep(Duration::from_millis(50))
SleepPoll ==
    /\ epc = "sleep"
    /\ elapsed' = elapsed + 1
    /\ epc' = "poll"
    /\ UNCHANGED <<timeout, child, killSent, toWrite, pipeBuf, captured,
                   errOut, holder, forked, eresult, spawned>>
    /\ UNCHANGED notExec

\* child.kill()?  -- SIGKILL; a child that exited since the poll is a zombie
\* already and the signal is a no-op
KillChild ==
    /\ epc = "kill"
    /\ child \in {"running", "zombie"}
    /\ child' = "zombie"
    /\ killSent' = TRUE
    /\ epc' = "wait"
    /\ UNCHANGED <<timeout, elapsed, toWrite, pipeBuf, captured, errOut,
                   holder, forked, eresult, spawned>>
    /\ UNCHANGED notExec

\* wait() left out: the function returns with the killed child unreaped
WaitChild_NoReap ==
    /\ epc = "wait"
    /\ child = "zombie"
    /\ eresult' = ErrTimeout
    /\ epc' = "done"
    /\ UNCHANGED <<timeout, elapsed, child, killSent, toWrite, pipeBuf,
                   captured, errOut, holder, forked, spawned>>
    /\ UNCHANGED notExec

\* child.wait()?  then  return Err(ExecutionFailed("Timeout after ..."))
WaitChild ==
    /\ epc = "wait"
    /\ child = "zombie"
    /\ child' = "reaped"
    /\ eresult' = ErrTimeout
    /\ epc' = "done"
    /\ UNCHANGED <<timeout, elapsed, killSent, toWrite, pipeBuf, captured,
                   errOut, holder, forked, spawned>>
    /\ UNCHANGED notExec

\* The write ends of the pipes are open while the child or a descendant
\* that inherited them is alive.
PipeOpen == child = "running" \/ holder

\* pipe.read_to_string(): one read() that returns data
ReadData ==
    /\ epc = "read"
    /\ pipeBuf > 0
    /\ captured' = captured + pipeBuf
    /\ pipeBuf' = 0
    /\ UNCHANGED <<epc, timeout, elapsed, child, killSent, toWrite, errOut,
                   holder, forked, eresult, spawned>>
    /\ UNCHANGED notExec

\* read() returns 0 (end of file) on both pipes: prefer stdout, else stderr
ReadEof ==
    /\ epc = "read"
    /\ pipeBuf = 0
    /\ ~PipeOpen
    /\ eresult' = OkOutput(IF captured > 0 THEN "stdout"
                           ELSE IF errOut THEN "stderr" ELSE "")
    /\ epc' = "done"
    /\ UNCHANGED <<timeout, elapsed, child, killSent, toWrite, pipeBuf,
                   captured, errOut, holder, forked, spawned>>
    /\ UNCHANGED notExec

\* read() blocks: the pipe is empty and a write end is still open
ReadBlocked ==
    /\ epc = "read"
    /\ pipeBuf = 0
    /\ PipeOpen
    /\ elapsed < timeout + MaxOverrun
    /\ elapsed' = elapsed + 1
    /\ UNCHANGED <<epc, timeout, child, killSent, toWrite, pipeBuf, captured,
                   errOut, holder, forked, eresult, spawned>>
    /\ UNCHANGED notExec

(* The child and its descendants: the environment of the call *)

ChildWrites ==
    /\ child = "running"
    /\ toWrite > 0
    /\ pipeBuf < PipeCap
    /\ toWrite' = toWrite - 1
    /\ pipeBuf' = pipeBuf + 1
    /\ UNCHANGED <<epc, timeout, elapsed, child, killSent, captured, errOut,
                   holder, forked, eresult, spawned>>
    /\ UNCHANGED notExec

ChildForks ==
    /\ child = "running"
    /\ ~forked
    /\ forked' = TRUE
    /\ holder' = TRUE
    /\ UNCHANGED <<epc, timeout, elapsed, child, killSent, toWrite, pipeBuf,
                   captured, errOut, eresult, spawned>>
    /\ UNCHANGED notExec

ChildExits ==
    /\ child = "running"
    /\ toWrite = 0
    /\ child' = "zombie"
    /\ UNCHANGED <<epc, timeout, elapsed, killSent, toWrite, pipeBuf,
                   captured, errOut, holder, forked, eresult, spawned>>
    /\ UNCHANGED notExec

DescendantExits ==
    /\ holder
    /\ holder' = FALSE
    /\ UNCHANGED <<epc, timeout, elapsed, child, killSent, toWrite, pipeBuf,
                   captured, errOut, forked, eresult, spawned>>
    /\ UNCHANGED notExec

ExecNext ==
    \/ SpawnFails
    \/ SpawnChild
    \/ TryWait
    \/ CheckTimeout
    \/ SleepPoll
    \/ KillChild
    \/ WaitChild
    \/ ReadData
    \/ ReadEof
    \/ ReadBlocked
    \/ ChildWrites
    \/ ChildForks
    \/ ChildExits
    \/ DescendantExits

--------------------------------------------------------------------------
(* The pre_exec closure of execute_with_timeout_and_limits *)

Resources == {"RLIMIT_AS", "RLIMIT_NOFILE", "RLIMIT_NPROC"}

\* the order in which the closure handles the resources
HookOrder == <<"RLIMIT_AS", "RLIMIT_NOFILE", "RLIMIT_NPROC">>

\* libc::RLIM_INFINITY is the largest rlim_t
RLIM_INFINITY == MaxLim + 1

Lim == 0..RLIM_INFINITY

\* the kernel keeps rlim_cur <= rlim_max
LimPairs == {p \in [cur : Lim, max : Lim] : p.cur <= p.max}

HookIdle ==
    /\ hidx = 0
    /\ useLimits = FALSE
    /\ ceiling = [r \in Resources |-> 0]
    /\ inherited = [r \in Resources |-> [cur |-> 0, max |-> 0]]
    /\ rl = inherited
    /\ setFailed = {}
    /\ hookRet = "pending"
    /\ spawnRet = "pending"

HookInit ==
    /\ hidx = 1
    /\ useLimits \in BOOLEAN
    /\ ceiling \in [Resources -> Lim]
    /\ useLimits = FALSE => ceiling = [r \in Resources |-> RLIM_INFINITY]
    /\ inherited \in [Resources -> LimPairs]
    /\ rl = inherited
    /\ setFailed = {}
    /\ hookRet = "pending"
    /\ spawnRet = "pending"

\* if current_limit.rlim_max == RLIM_INFINITY || current_limit.rlim_max > max
Lowering(current_limit, max) ==
    current_limit.max = RLIM_INFINITY \/ current_limit.max > max

\* rlimit { rlim_cur: max, rlim_max: max }
NewLimit(current_limit, max) == [cur |-> max, max |-> max]

\* getrlimit failed, or the guard found nothing to lower: no setrlimit call
HookSkip ==
    /\ useLimits /\ hidx \in 1..3
    /\ \E getOk \in BOOLEAN :
          ~(getOk /\ Lowering(rl[HookOrder[hidx]], ceiling[HookOrder[hidx]]))
    /\ hidx' = hidx + 1
    /\ UNCHANGED <<useLimits, ceiling, inherited, rl, setFailed, hookRet,
                   spawnRet>>
    /\ UNCHANGED notHook

\* setrlimit(resource, &limit) returned 0
HookSet ==
    /\ useLimits /\ hidx \in 1..3
    /\ LET r == HookOrder[hidx] IN
          /\ Lowering(rl[r], ceiling[r])
          /\ rl' = [rl EXCEPT ![r] = NewLimit(rl[r], ceiling[r])]
    /\ hidx' = hidx + 1
    /\ UNCHANGED <<useLimits, ceiling, inherited, setFailed, hookRet,
                   spawnRet>>
    /\ UNCHANGED notHook

\* a non-zero return of setrlimit made fatal, as in ResourceLimits::apply
HookSetFails_Fatal ==
    /\ useLimits /\ hidx \in 1..3
    /\ LET r == HookOrder[hidx] IN
          /\ Lowering(rl[r], ceiling[r])
          /\ setFailed' = setFailed \cup {r}
    /\ hookRet' = "Err"
    /\ hidx' = 5
    /\ UNCHANGED <<useLimits, ceiling, inherited, rl, spawnRet>>
    /\ UNCHANGED notHook

\* let _ = setrlimit(..): a non-zero return is dropped
HookSetFails ==
    /\ useLimits /\ hidx \in 1..3
    /\ LET r == HookOrder[hidx] IN
          /\ Lowering(rl[r], ceiling[r])
          /\ setFailed' = setFailed \cup {r}
    /\ hidx' = hidx + 1
    /\ UNCHANGED <<useLimits, ceiling, inherited, rl, hookRet, spawnRet>>
    /\ UNCHANGED notHook

\* Ok(())  -- the closure's only return
HookReturns ==
    /\ useLimits /\ hidx = 4
    /\ hookRet' = "Ok"
    /\ hidx' = 5
    /\ UNCHANGED <<useLimits, ceiling, inherited, rl, setFailed, spawnRet>>
    /\ UNCHANGED notHook

\* After the closure (or with no closure): exec of the target binary.
\* spawn() returns Err when the closure returned Err or exec failed.
ExecTarget ==
    /\ spawnRet = "pending"
    /\ IF useLimits THEN hidx = 5 ELSE hidx = 1
    /\ \E execOk \in BOOLEAN :
          spawnRet' = IF hookRet # "Err" /\ execOk THEN "Ok" ELSE "Err"
    /\ UNCHANGED <<hidx, useLimits, ceiling, inherited, rl, setFailed,
                   hookRet>>
    /\ UNCHANGED notHook

HookNext ==
    \/ HookSkip
    \/ HookSet
    \/ HookSetFails
    \/ HookReturns
    \/ ExecTarget

--------------------------------------------------------------------------
(* Help texts *)

\* subcommand names a help text may list
Names == {"build", "config", "list"}

\* A help text is a sequence of lines.  A line is a section header of
\* SUBCOMMAND_HEADERS ("header"), an empty or all-blank line ("blank"), a
\* line that is neither and does not match SUBCOMMAND_PATTERN ("other"), or
\* a line matching SUBCOMMAND_PATTERN, given by the name it captures.
LineKinds == {"header", "blank", "other"} \cup Names

SeqsUpTo(S, n) == UNION {[1..k -> S] : k \in 0..n}

HelpTexts == SeqsUpTo(LineKinds, MaxLines)

\* output.trim().is_empty()
IsBlank(text) == \A i \in 1..Len(text) : text[i] = "blank"

\* parse_subcommands: the state of the scan after the first n lines
RECURSIVE ScanLines(_, _)
ScanLines(text, n) ==
    IF n = 0 THEN [in_subcommand_section |-> FALSE, subcommands |-> <<>>]
    ELSE LET prev == ScanLines(text, n - 1)
             line == text[n]
         IN  IF ~prev.in_subcommand_section
                THEN [prev EXCEPT !.in_subcommand_section = (line = "header")]
             ELSE IF line = "blank"
                THEN [prev EXCEPT !.in_subcommand_section = FALSE]
             ELSE IF line \in Names
                THEN [prev EXCEPT !.subcommands = Append(@, line)]
             ELSE prev

parse_subcommands(text) == ScanLines(text, Len(text)).subcommands

\* the candidates of a subcommand's help text are listed once each, or are
\* two at most (a short text may list a name twice)
OnceEach(candidates) ==
    \A i, j \in 1..Len(candidates) : i # j => candidates[i] # candidates[j]

\* what parse_subcommands makes of the non-blank help texts a subcommand
\* probe returns
ParsedHelps ==
    {candidates \in {parse_subcommands(t) : t \in {h \in HelpTexts : ~IsBlank(h)}} :
        Len(candidates) > 2 => OnceEach(candidates)}

--------------------------------------------------------------------------
(* SubcommandDetector::detect / detect_recursive *)

\* the binary under analysis
BinaryPath == "/usr/bin/tool"

\* format!("{}-{}", binary.display(), name)
VisitKey(binary, name) == <<binary, "-", name>>

\* Subcommand { name, subcommands: nested_subcommands, depth: current_depth }
Subcommand(name, nested_subcommands, current_depth) ==
    [name |-> name, subcommands |-> nested_subcommands, depth |-> current_depth]

\* off by one: > for >=
DepthReached_OffByOne(current_depth) == current_depth > max_depth

\* if current_depth >= self.max_depth { return Ok(vec![]) }
DepthReached(current_depth) == current_depth >= max_depth

\* An activation of detect_recursive: the candidates of its help text, the
\* index i of the candidate its for loop is at, the probe k of
\* get_subcommand_help it is at (0: none), and the subcommands pushed so far.
Activation(current_depth, subcommand_candidates) ==
    [depth |-> current_depth,
     cands |-> IF DepthReached(current_depth) THEN <<>>
               ELSE subcommand_candidates,
     i |-> 1, k |-> 0, subcommands |-> <<>>]

Top == dstack[Len(dstack)]

SetTop(f) == [dstack EXCEPT ![Len(dstack)] = f]

InLoop == dphase = "run" /\ Top.k = 0 /\ Top.i <= Len(Top.cands)

DetInit ==
    /\ dphase = "start"
    /\ max_depth \in 0..MAX_RECURSION_DEPTH
    /\ dstack = <<>>
    /\ visited = {}
    /\ scannedAt = {}
    /\ probedAt = {}
    /\ dret = "pending"

\* detect(): self.detect_recursive(binary, help_output, 0, &mut HashSet::new())
DetectCall ==
    /\ dphase = "start"
    /\ \E subcommand_candidates \in ParsedHelps :
          dstack' = <<Activation(0, subcommand_candidates)>>
    /\ scannedAt' = IF DepthReached(0) THEN scannedAt ELSE scannedAt \cup {0}
    /\ dphase' = "run"
    /\ UNCHANGED <<max_depth, visited, probedAt, dret>>
    /\ UNCHANGED notDet

\* if visited.contains(&visit_key) { continue; }
SkipVisited ==
    /\ InLoop
    /\ VisitKey(BinaryPath, Top.cands[Top.i]) \in visited
    /\ dstack' = SetTop([Top EXCEPT !.i = @ + 1])
    /\ UNCHANGED <<dphase, max_depth, visited, scannedAt, probedAt, dret>>
    /\ UNCHANGED notDet

\* visited.insert(visit_key) left out
VisitCandidate_NoInsert ==
    /\ InLoop
    /\ VisitKey(BinaryPath, Top.cands[Top.i]) \notin visited
    /\ dstack' = SetTop([Top EXCEPT !.k = 1])
    /\ probedAt' = probedAt \cup {Top.depth}
    /\ UNCHANGED <<dphase, max_depth, visited, scannedAt, dret>>
    /\ UNCHANGED notDet

\* visited.insert(visit_key); then get_subcommand_help starts
VisitCandidate ==
    /\ InLoop
    /\ VisitKey(BinaryPath, Top.cands[Top.i]) \notin visited
    /\ visited' = visited \cup {VisitKey(BinaryPath, Top.cands[Top.i])}
    /\ dstack' = SetTop([Top EXCEPT !.k = 1])
    /\ probedAt' = probedAt \cup {Top.depth}
    /\ UNCHANGED <<dphase, max_depth, scannedAt, dret>>
    /\ UNCHANGED notDet

\* a probe of get_subcommand_help failed or returned blank output, and
\* another probe is left: <name> --help, then <name> -h, then help <name>
ProbeFails ==
    /\ dphase = "run" /\ Top.k \in 1..2
    /\ dstack' = SetTop([Top EXCEPT !.k = @ + 1])
    /\ UNCHANGED <<dphase, max_depth, visited, scannedAt, probedAt, dret>>
    /\ UNCHANGED notDet

\* the Err of get_subcommand_help propagated with `?`
DropCandidate_Abort ==
    /\ dphase = "run" /\ Top.k = 3
    /\ dstack' = <<>>
    /\ dret' = <<>>
    /\ dphase' = "done"
    /\ UNCHANGED <<max_depth, visited, scannedAt, probedAt>>
    /\ UNCHANGED notDet

\* the probe chain started over instead of dropping the candidate
DropCandidate_Retry ==
    /\ dphase = "run" /\ Top.k = 3
    /\ dstack' = SetTop([Top EXCEPT !.k = 1])
    /\ UNCHANGED <<dphase, max_depth, visited, scannedAt, probedAt, dret>>
    /\ UNCHANGED notDet

\* the third probe failed too: Err(InvalidHelpOutput), the caller logs it
\* and continues with the next candidate
DropCandidate ==
    /\ dphase = "run" /\ Top.k = 3
    /\ dstack' = SetTop([Top EXCEPT !.k = 0, !.i = @ + 1])
    /\ UNCHANGED <<dphase, max_depth, visited, scannedAt, probedAt, dret>>
    /\ UNCHANGED notDet

\* the nested call started without the caller waiting for it: the caller
\* is left at its next candidate
ProbeSucceeds_NoWait ==
    /\ dphase = "run" /\ Top.k \in 1..3
    /\ \E subcommand_candidates \in ParsedHelps :
          dstack' = Append(SetTop([Top EXCEPT !.k = 0, !.i = @ + 1]),
                           Activation(Top.depth + 1, subcommand_candidates))
    /\ scannedAt' = IF DepthReached(Top.depth + 1) THEN scannedAt
                    ELSE scannedAt \cup {Top.depth + 1}
    /\ UNCHANGED <<dphase, max_depth, visited, probedAt, dret>>
    /\ UNCHANGED notDet

\* a probe returned non-blank output: the candidate's options are parsed and
\* detect_recursive is called on its help text with current_depth + 1
ProbeSucceeds ==
    /\ dphase = "run" /\ Top.k \in 1..3
    /\ \E subcommand_candidates \in ParsedHelps :
          dstack' = Append(SetTop([Top EXCEPT !.k = 4]),
                           Activation(Top.depth + 1, subcommand_candidates))
    /\ scannedAt' = IF DepthReached(Top.depth + 1) THEN scannedAt
                    ELSE scannedAt \cup {Top.depth + 1}
    /\ UNCHANGED <<dphase, max_depth, visited, probedAt, dret>>
    /\ UNCHANGED notDet

\* the node put at the front of the caller's list
ReturnNested_Prepend ==
    /\ dphase = "run" /\ Len(dstack) > 1
    /\ Top.k = 0 /\ Top.i > Len(Top.cands)
    /\ LET caller == dstack[Len(dstack) - 1]
           node == Subcommand(caller.cands[caller.i], Top.subcommands,
                              caller.depth)
       IN  dstack' = [SubSeq(dstack, 1, Len(dstack) - 1)
                        EXCEPT ![Len(dstack) - 1] =
                          [caller EXCEPT !.subcommands = <<node>> \o @,
                                         !.k = 0, !.i = @ + 1]]
    /\ UNCHANGED <<dphase, max_depth, visited, scannedAt, probedAt, dret>>
    /\ UNCHANGED notDet

\* Ok(subcommands) of a nested activation: the caller pushes the Subcommand
ReturnNested ==
    /\ dphase = "run" /\ Len(dstack) > 1
    /\ Top.k = 0 /\ Top.i > Len(Top.cands)
    /\ LET caller == dstack[Len(dstack) - 1]
           node == Subcommand(caller.cands[caller.i], Top.subcommands,
                              caller.depth)
       IN  dstack' = [SubSeq(dstack, 1, Len(dstack) - 1)
                        EXCEPT ![Len(dstack) - 1] =
                          [caller EXCEPT !.subcommands = Append(@, node),
                                         !.k = 0, !.i = @ + 1]]
    /\ UNCHANGED <<dphase, max_depth, visited, scannedAt, probedAt, dret>>
    /\ UNCHANGED notDet

\* Ok(subcommands) of the outermost activation: detect() returns it
ReturnDetect ==
    /\ dphase = "run" /\ Len(dstack) = 1
    /\ Top.k = 0 /\ Top.i > Len(Top.cands)
    /\ dret' = Top.subcommands
    /\ dstack' = <<>>
    /\ dphase' = "done"
    /\ UNCHANGED <<max_depth, visited, scannedAt, probedAt>>
    /\ UNCHANGED notDet

DetIdle ==
    /\ dphase = "idle"
    /\ max_depth = MAX_RECURSION_DEPTH
    /\ dstack = <<>>
    /\ visited = {}
    /\ scannedAt = {}
    /\ probedAt = {}
    /\ dret = "pending"

\* the nodes of a tree, at every nesting level
RECURSIVE AllNodes(_)
AllNodes(tree) ==
    IF tree = <<>> THEN <<>>
    ELSE <<Head(tree)>> \o AllNodes(Head(tree).subcommands)
           \o AllNodes(Tail(tree))

--------------------------------------------------------------------------
(* CliParser::analyze *)

\* what execute_with_timeout can return to a caller: captured output, a
\* timeout, or an io error of spawn/try_wait/read
ProbeResults ==
    {[kind |-> "Ok", output |-> t] : t \in HelpTexts}
        \cup {[kind |-> "ExecutionFailed"], [kind |-> "Io"]}

\* the arguments of the probes of execute_help and try_get_version, in order
HelpArgs == <<"--help", "-h", "help">>
VersionArgs == <<"--version", "-v", "version">>

AnErr(kind) == [kind |-> kind]

\* a sequence without its repeated elements, first occurrences kept
RECURSIVE DedupFirst(_)
DedupFirst(seq) ==
    IF seq = <<>> THEN <<>>
    ELSE LET init == DedupFirst(SubSeq(seq, 1, Len(seq) - 1))
             last == seq[Len(seq)]
         IN  IF \E i \in 1..Len(init) : init[i] = last THEN init
             ELSE Append(init, last)

\* the subsequence of seq at the positions in keep
RECURSIVE Pick(_, _)
Pick(seq, keep) ==
    IF seq = <<>> THEN <<>>
    ELSE LET init == Pick(SubSeq(seq, 1, Len(seq) - 1), keep)
         IN  IF Len(seq) \in keep THEN Append(init, seq[Len(seq)]) ELSE init

AnInit ==
    /\ apc = "validate"
    /\ hk = 0
    /\ vk = 0
    /\ help_output = <<>>
    /\ version = "None"
    /\ subcommands = <<>>
    /\ global_options = <<>>
    /\ aresult = NoResult

AnIdle ==
    /\ apc = "idle"
    /\ hk = 0
    /\ vk = 0
    /\ help_output = <<>>
    /\ version = "None"
    /\ subcommands = <<>>
    /\ global_options = <<>>
    /\ aresult = NoResult

\* validate_binary_path(binary_path)?
ValidateFails ==
    /\ apc = "validate"
    /\ \E kind \in {"BinaryNotFound", "BinaryNotExecutable", "Io"} :
          aresult' = AnErr(kind)
    /\ apc' = "done"
    /\ UNCHANGED <<hk, vk, help_output, version, subcommands, global_options>>
    /\ UNCHANGED notAn

ValidateOk ==
    /\ apc = "validate"
    /\ apc' = "name"
    /\ UNCHANGED <<hk, vk, help_output, version, subcommands, aresult,
                   global_options>>
    /\ UNCHANGED notAn

\* canonical_path.file_name().and_then(|n| n.to_str()).ok_or_else(..)?
BinaryName ==
    /\ apc = "name"
    /\ \E utf8 \in BOOLEAN :
          IF utf8 THEN apc' = "help" /\ aresult' = aresult
          ELSE apc' = "done" /\ aresult' = AnErr("BinaryNotFound")
    /\ UNCHANGED <<hk, vk, help_output, version, subcommands, global_options>>
    /\ UNCHANGED notAn

\* execute_help: a probe that returns Ok(output) ends the chain, whatever
\* the output is
HelpProbeOk ==
    /\ apc = "help"
    /\ \E r \in ProbeResults :
          /\ r.kind = "Ok"
          /\ help_output' = r.output
    /\ hk' = hk + 1
    /\ apc' = "check"
    /\ UNCHANGED <<vk, version, subcommands, aresult, global_options>>
    /\ UNCHANGED notAn

\* execute_help: Err(_) of --help or -h falls back to the next probe
HelpProbeErr ==
    /\ apc = "help" /\ hk < 2
    /\ hk' = hk + 1
    /\ UNCHANGED <<apc, vk, help_output, version, subcommands, aresult,
                   global_options>>
    /\ UNCHANGED notAn

\* execute_help: the result of the `help` probe is returned as it is, and
\* analyze's `?` returns its error
HelpChainErr ==
    /\ apc = "help" /\ hk = 2
    /\ \E r \in ProbeResults :
          /\ r.kind # "Ok"
          /\ aresult' = AnErr(r.kind)
    /\ hk' = hk + 1
    /\ apc' = "done"
    /\ UNCHANGED <<vk, help_output, version, subcommands, global_options>>
    /\ UNCHANGED notAn

\* is_empty() without trim(): whitespace-only help text passes
CheckHelp_NoTrim ==
    /\ apc = "check"
    /\ IF help_output = <<>>
          THEN apc' = "done" /\ aresult' = AnErr("InvalidHelpOutput")
          ELSE apc' = "version" /\ aresult' = aresult
    /\ UNCHANGED <<hk, vk, help_output, version, subcommands, global_options>>
    /\ UNCHANGED notAn

\* if help_output.trim().is_empty() { return Err(InvalidHelpOutput) }
CheckHelp ==
    /\ apc = "check"
    /\ IF IsBlank(help_output)
          THEN apc' = "done" /\ aresult' = AnErr("InvalidHelpOutput")
          ELSE apc' = "version" /\ aresult' = aresult
    /\ UNCHANGED <<hk, vk, help_output, version, subcommands, global_options>>
    /\ UNCHANGED notAn

\* try_get_version: a probe whose output holds a VERSION_PATTERN match
VersionFound ==
    /\ apc = "version" /\ vk < 3
    /\ vk' = vk + 1
    /\ version' = "Some"
    /\ apc' = "parse"
    /\ UNCHANGED <<hk, help_output, subcommands, aresult, global_options>>
    /\ UNCHANGED notAn

\* try_get_version made fallible: the last failing probe aborts analyze
VersionMiss_Fatal ==
    /\ apc = "version" /\ vk < 3
    /\ vk' = vk + 1
    /\ IF vk = 2
          THEN apc' = "done" /\ aresult' = AnErr("ExecutionFailed")
          ELSE apc' = "version" /\ aresult' = aresult
    /\ UNCHANGED <<hk, help_output, version, subcommands, global_options>>
    /\ UNCHANGED notAn

\* try_get_version: a probe that failed or whose output holds no match
VersionMiss ==
    /\ apc = "version" /\ vk < 3
    /\ vk' = vk + 1
    /\ apc' = IF vk = 2 THEN "parse" ELSE "version"
    /\ UNCHANGED <<hk, help_output, version, subcommands, aresult,
                   global_options>>
    /\ UNCHANGED notAn

\* subcommand_detector.detect(&canonical_path, &help_output)
\*     .unwrap_or_default()
\* detect() is modelled step by step in SpecDetect; here its result is the
\* names of its top-level nodes: first occurrences of the candidates of the
\* help text, less those skipped or dropped.
DetectSubcommands ==
    /\ apc = "detect"
    /\ LET candidates == DedupFirst(parse_subcommands(help_output))
       IN  \E keep \in SUBSET (1..Len(candidates)) :
               subcommands' = Pick(candidates, keep)
    /\ apc' = "build"
    /\ UNCHANGED <<hk, vk, help_output, version, aresult, global_options>>
    /\ UNCHANGED notAn

\* CliAnalysis::new(canonical_path, binary_name, help_output) and Ok(analysis)
BuildAnalysis ==
    /\ apc = "build"
    /\ aresult' = [kind |-> "Ok", help_output |-> help_output,
                   version |-> version, global_options |-> global_options,
                   subcommands |-> subcommands]
    /\ apc' = "done"
    /\ UNCHANGED <<hk, vk, help_output, version, subcommands, global_options>>
    /\ UNCHANGED notAn

--------------------------------------------------------------------------
(* Strings: a string is the sequence of its characters *)

\* haystack.contains(needle)
Contains(haystack, needle) ==
    \E i \in 0..(Len(haystack) - Len(needle)) :
        \A j \in 1..Len(needle) : haystack[i + j] = needle[j]

\* haystack.starts_with(needle)
StartsWith(haystack, needle) ==
    /\ Len(needle) <= Len(haystack)
    /\ \A j \in 1..Len(needle) : haystack[j] = needle[j]

UpperLower ==
    {<<"A", "a">>, <<"B", "b">>, <<"C", "c">>, <<"D", "d">>, <<"E", "e">>,
     <<"F", "f">>, <<"G", "g">>, <<"H", "h">>, <<"I", "i">>, <<"J", "j">>,
     <<"K", "k">>, <<"L", "l">>, <<"M", "m">>, <<"N", "n">>, <<"O", "o">>,
     <<"P", "p">>, <<"Q", "q">>, <<"R", "r">>, <<"S", "s">>, <<"T", "t">>,
     <<"U", "u">>, <<"V", "v">>, <<"W", "w">>, <<"X", "x">>, <<"Y", "y">>,
     <<"Z", "z">>}

LowerChar(c) ==
    IF \E p \in UpperLower : p[1] = c
        THEN (CHOOSE p \in UpperLower : p[1] = c)[2]
        ELSE c

\* s.to_lowercase()
ToLowercase(str) == [i \in 1..Len(str) |-> LowerChar(str[i])]

\* s.split_whitespace(): the maximal runs of non-space characters
RECURSIVE SplitWhitespace(_)
SplitWhitespace(str) ==
    IF str = <<>> THEN <<>>
    ELSE LET init == SplitWhitespace(SubSeq(str, 1, Len(str) - 1))
             c == str[Len(str)]
         IN  IF c = " " THEN init
             ELSE IF Len(str) > 1 /\ str[Len(str) - 1] # " "
                THEN [init EXCEPT ![Len(init)] = Append(@, c)]
             ELSE Append(init, <<c>>)

--------------------------------------------------------------------------
(* BehaviorInferrer *)

\* static ref INTERACTIVE_TOOLS
INTERACTIVE_TOOLS ==
    {<<"p", "s", "q", "l">>,
     <<"m", "y", "s", "q", "l">>,
     <<"r", "e", "d", "i", "s", "-", "c", "l", "i">>,
     <<"m", "o", "n", "g", "o">>,
     <<"m", "o", "n", "g", "o", "s", "h">>,
     <<"s", "q", "l", "i", "t", "e", "3">>,
     <<"p", "y", "t", "h", "o", "n">>,
     <<"p", "y", "t", "h", "o", "n", "3">>,
     <<"n", "o", "d", "e">>,
     <<"i", "r", "b">>,
     <<"p", "h", "p">>,
     <<"R">>,
     <<"j", "u", "l", "i", "a">>,
     <<"g", "d", "b">>,
     <<"l", "l", "d", "b">>,
     <<"g", "h", "c", "i">>,
     <<"e", "r", "l">>,
     <<"i", "e", "x">>}

\* the binary names the classifier is run on
BinaryNames ==
    {<<"p", "s", "q", "l">>,
     <<"m", "y", "p", "s", "q", "l">>,
     <<"p", "y", "t", "h", "o", "n", "3", ".", "1", "1">>,
     <<"R", "s", "c", "r", "i", "p", "t">>,
     <<"n", "o", "d", "e", "j", "s">>,
     <<"g", "i", "t">>,
     <<"l", "s">>,
     <<"b", "a", "c", "k", "u", "p", "-", "s", "u", "i", "t", "e">>}

\* what follows "Usage: " on the Usage lines of the help texts
UsagePatterns ==
    {<<"g", "i", "t", " ", "<", "S", "U", "B", "C", "O", "M", "M", "A", "N", "D", ">">>,
     <<"g", "i", "t", " ", "<", "C", "O", "M", "M", "A", "N", "D", ">">>,
     <<"d", "o", "c", "k", "e", "r", " ", "C", "O", "M", "M", "A", "N", "D">>,
     <<"b", "a", "c", "k", "u", "p", "-", "s", "u", "i", "t", "e", " ", "[", "O", "P", "T", "I", "O", "N", "S", "]">>,
     <<"l", "s">>,
     <<"c", "m", "d", " ", "[", "c", "o", "m", "m", "a", "n", "d", "]">>,
     <<"c", "p", " ", "S", "O", "U", "R", "C", "E", " ", "D", "E", "S", "T">>}

\* help texts, as the sequence of the captures of their Usage: lines
UsageTexts == SeqsUpTo(UsagePatterns, MaxUsageLines)

\* exit statuses of the no-args child: an exit code, or -1 for a child killed
\* by a signal, whose status.code() is None
ExitStatuses == {-1, 0, 1, 2, 3}

\* the Command built by execute_and_measure
MeasureCommand ==
    [stdin |-> "null", stdout |-> "null", stderr |-> "null",
     env |-> NoColorEnv]

\* == for contains: only exact names are recognised
is_interactive_tool_Exact(name) == name \in INTERACTIVE_TOOLS

\* INTERACTIVE_TOOLS.iter().any(|&name| binary_name.contains(name))
is_interactive_tool(name) ==
    \E tool \in INTERACTIVE_TOOLS : Contains(name, tool)

\* the capture of the first line USAGE_LINE matches: <<>> for None, <<p>> for
\* Some(p)
extract_usage_pattern(text) ==
    IF text = <<>> THEN <<>> ELSE <<text[1]>>

\* to_lowercase() left out: the patterns are matched case-sensitively
requires_subcommand_from_usage_CaseSensitive(pattern) ==
    LET Lit_subcommand == <<"s", "u", "b", "c", "o", "m", "m", "a", "n", "d">>
        Lit_command == <<"c", "o", "m", "m", "a", "n", "d">>
    IN  IF \/ Contains(pattern, <<"<">> \o Lit_subcommand \o <<">">>)
           \/ Contains(pattern, <<"<">> \o Lit_command \o <<">">>)
           THEN TRUE
        ELSE IF /\ \/ Contains(pattern, <<" ">> \o Lit_command)
                   \/ Contains(pattern, <<" ">> \o Lit_subcommand)
                /\ ~Contains(pattern, <<"[">> \o Lit_command \o <<"]">>)
                /\ ~Contains(pattern, <<"[">> \o Lit_subcommand \o <<"]">>)
           THEN TRUE
        ELSE FALSE

requires_subcommand_from_usage(pattern) ==
    LET pattern_lower == ToLowercase(pattern)
        Lit_subcommand == <<"s", "u", "b", "c", "o", "m", "m", "a", "n", "d">>
        Lit_command == <<"c", "o", "m", "m", "a", "n", "d">>
    IN  IF \/ Contains(pattern_lower, <<"<">> \o Lit_subcommand \o <<">">>)
           \/ Contains(pattern_lower, <<"<">> \o Lit_command \o <<">">>)
           THEN TRUE
        ELSE IF /\ \/ Contains(pattern_lower, <<" ">> \o Lit_command)
                   \/ Contains(pattern_lower, <<" ">> \o Lit_subcommand)
                /\ ~Contains(pattern, <<"[">> \o Lit_command \o <<"]">>)
                /\ ~Contains(pattern, <<"[">> \o Lit_subcommand \o <<"]">>)
           THEN TRUE
        ELSE FALSE

is_optional_only_from_usage(pattern) ==
    LET parts == SplitWhitespace(pattern)
    IN  IF Len(parts) <= 1 THEN TRUE
        ELSE parts[2][1] = "["

\* the arm `1 | 2` narrowed to `1`
BehaviorOfExit_OnlyOne(status) ==
    LET exit_code == IF status = -1 THEN 0 ELSE status
    IN  IF exit_code = 1 THEN "RequireSubcommand" ELSE "ShowHelp"

\* status.code().unwrap_or(0), then the match on the exit code
BehaviorOfExit(status) ==
    LET exit_code == IF status = -1 THEN 0 ELSE status
    IN  IF exit_code = 0 THEN "ShowHelp"
        ELSE IF exit_code \in {1, 2} THEN "RequireSubcommand"
        ELSE "ShowHelp"

InfInit ==
    /\ ipc = "strategy0"
    /\ binary_name \in BinaryNames
    /\ usage_lines \in UsageTexts
    /\ has_subcommands \in BOOLEAN
    /\ mspawned = {}
    /\ mchild = "none"
    /\ mstatus = <<>>
    /\ verdict = "none"

InfIdle ==
    /\ ipc = "idle"
    /\ binary_name = <<>>
    /\ usage_lines = <<>>
    /\ has_subcommands = FALSE
    /\ mspawned = {}
    /\ mchild = "none"
    /\ mstatus = <<>>
    /\ verdict = "none"

\* Strategy 0: if self.is_interactive_tool(&analysis.binary_name)
CheckInteractive ==
    /\ ipc = "strategy0"
    /\ IF is_interactive_tool(binary_name)
          THEN verdict' = "Interactive" /\ ipc' = "done"
          ELSE verdict' = verdict /\ ipc' = "strategy1"
    /\ UNCHANGED <<binary_name, usage_lines, has_subcommands, mspawned,
                   mchild, mstatus>>
    /\ UNCHANGED notInf

\* execute_and_measure: Command::new(..)...spawn()? fails
MeasureSpawnFails ==
    /\ ipc = "strategy1"
    /\ ipc' = "strategy2"
    /\ UNCHANGED <<binary_name, usage_lines, has_subcommands, mspawned,
                   mchild, mstatus, verdict>>
    /\ UNCHANGED notInf

\* execute_and_measure: the child is spawned
MeasureSpawn ==
    /\ ipc = "strategy1"
    /\ mspawned' = mspawned \cup {MeasureCommand}
    /\ mchild' = "running"
    /\ ipc' = "wait_timeout"
    /\ UNCHANGED <<binary_name, usage_lines, has_subcommands, mstatus,
                   verdict>>
    /\ UNCHANGED notInf

\* child.wait_timeout(1 s) returned Some(status): the exit code decides
MeasureExit ==
    /\ ipc = "wait_timeout"
    /\ \E status \in ExitStatuses :
          /\ mstatus' = <<status>>
          /\ verdict' = BehaviorOfExit(status)
    /\ mchild' = "reaped"
    /\ ipc' = "done"
    /\ UNCHANGED <<binary_name, usage_lines, has_subcommands, mspawned>>
    /\ UNCHANGED notInf

\* child.wait_timeout(1 s) returned None: kill, wait, Ok(None)
MeasureTimeout ==
    /\ ipc = "wait_timeout"
    /\ mchild' = "reaped"
    /\ ipc' = "strategy2"
    /\ UNCHANGED <<binary_name, usage_lines, has_subcommands, mspawned,
                   mstatus, verdict>>
    /\ UNCHANGED notInf

\* the has-subcommands test moved ahead of the Usage line
UsageStrategy_SubcommandsFirst ==
    /\ ipc = "strategy2"
    /\ LET found == extract_usage_pattern(usage_lines)
       IN  IF has_subcommands
              THEN verdict' = "RequireSubcommand" /\ ipc' = "done"
           ELSE IF found # <<>> /\ requires_subcommand_from_usage(found[1])
              THEN verdict' = "RequireSubcommand" /\ ipc' = "done"
           ELSE IF found # <<>> /\ is_optional_only_from_usage(found[1])
              THEN verdict' = "ShowHelp" /\ ipc' = "done"
           ELSE verdict' = verdict /\ ipc' = "strategy3"
    /\ UNCHANGED <<binary_name, usage_lines, has_subcommands, mspawned,
                   mchild, mstatus>>
    /\ UNCHANGED notInf

\* Strategy 2: the Usage line
UsageStrategy ==
    /\ ipc = "strategy2"
    /\ LET found == extract_usage_pattern(usage_lines)
       IN  IF found # <<>> /\ requires_subcommand_from_usage(found[1])
              THEN verdict' = "RequireSubcommand" /\ ipc' = "done"
           ELSE IF found # <<>> /\ is_optional_only_from_usage(found[1])
              THEN verdict' = "ShowHelp" /\ ipc' = "done"
           ELSE verdict' = verdict /\ ipc' = "strategy3"
    /\ UNCHANGED <<binary_name, usage_lines, has_subcommands, mspawned,
                   mchild, mstatus>>
    /\ UNCHANGED notInf

\* Strategy 3: if !analysis.subcommands.is_empty(); else the default
SubcommandsStrategy ==
    /\ ipc = "strategy3"
    /\ verdict' = IF has_subcommands THEN "RequireSubcommand" ELSE "ShowHelp"
    /\ ipc' = "done"
    /\ UNCHANGED <<binary_name, usage_lines, has_subcommands, mspawned,
                   mchild, mstatus>>
    /\ UNCHANGED notInf

InfNext ==
    \/ CheckInteractive
    \/ MeasureSpawnFails
    \/ MeasureSpawn
    \/ MeasureExit
    \/ MeasureTimeout
    \/ UsageStrategy
    \/ SubcommandsStrategy

--------------------------------------------------------------------------
(* CliParser::parse_options *)

\* Option<T>: <<>> for None, <<x>> for Some(x)
None == <<>>
Some(x) == <<x>>

\* what the regexes of parse_options find on a trimmed line: the captures of
\* SHORT_OPTION and LONG_OPTION with their dashes put back, the capture of
\* OPTION_DESCRIPTION, and whether OPTION_WITH_VALUE matches.  A line without
\* a '-', or on which neither option regex matches, has short = long = None.
\* OPTION_DESCRIPTION and OPTION_WITH_VALUE both begin with the pattern of
\* LONG_OPTION, so they match only on a line that has a long option.
OptionLines ==
    {l \in [short : {None, Some("-h")},
            long : {None, Some("--help")},
            description : {None, Some("Help text"),
                           Some("Duplicate help text")},
            with_value : BOOLEAN] :
        l.long = None => (l.description = None /\ ~l.with_value)}

\* help texts, as sequences of such lines
OptionTexts == SeqsUpTo(OptionLines, MaxOptLines)

\* format!("{:?}", o) of an Option<String>
DebugFmt(o) == IF o = None THEN <<"None">> ELSE <<"Some(", o[1], ")">>

\* format!("{:?}:{:?}", short, long)
option_key(short, long) == DebugFmt(short) \o <<":">> \o DebugFmt(long)

Flag == [tag |-> "Flag"]
String == [tag |-> "String"]
Path == [tag |-> "Path"]
Numeric(min, max) == [tag |-> "Numeric", min |-> min, max |-> max]
Enum(values) == [tag |-> "Enum", values |-> values]

\* CliOption { short, long, description, option_type, required: false,
\*             default_value: None }
CliOption(short, long, description, option_type) ==
    [short |-> short, long |-> long, description |-> description,
     option_type |-> option_type, required |-> FALSE,
     default_value |-> None]

\* the option parse_options builds from a line
OptionOfLine(line) ==
    CliOption(line.short, line.long, line.description,
              IF line.with_value THEN String ELSE Flag)

ParseInit ==
    /\ ppc = "loop"
    /\ plines \in OptionTexts
    /\ pidx = 1
    /\ seen_options = {}
    /\ poptions = <<>>

ParseIdle ==
    /\ ppc = "idle"
    /\ plines = <<>>
    /\ pidx = 0
    /\ seen_options = {}
    /\ poptions = <<>>

\* if short.is_none() && long.is_none() { continue; }  (and the lines
\* skipped before the regexes run)
SkipNoOption ==
    /\ ppc = "loop" /\ pidx <= Len(plines)
    /\ plines[pidx].short = None /\ plines[pidx].long = None
    /\ pidx' = pidx + 1
    /\ UNCHANGED <<ppc, plines, seen_options, poptions>>
    /\ UNCHANGED notParse

\* a line whose key was seen overwrites the option built before
SkipSeen_LastWins ==
    /\ ppc = "loop" /\ pidx <= Len(plines)
    /\ ~(plines[pidx].short = None /\ plines[pidx].long = None)
    /\ option_key(plines[pidx].short, plines[pidx].long) \in seen_options
    /\ poptions' =
          [a \in 1..Len(poptions) |->
              IF /\ poptions[a].short = plines[pidx].short
                 /\ poptions[a].long = plines[pidx].long
                 THEN OptionOfLine(plines[pidx])
                 ELSE poptions[a]]
    /\ pidx' = pidx + 1
    /\ UNCHANGED <<ppc, plines, seen_options>>
    /\ UNCHANGED notParse

\* if seen_options.contains(&option_key) { continue; }
SkipSeen ==
    /\ ppc = "loop" /\ pidx <= Len(plines)
    /\ ~(plines[pidx].short = None /\ plines[pidx].long = None)
    /\ option_key(plines[pidx].short, plines[pidx].long) \in seen_options
    /\ pidx' = pidx + 1
    /\ UNCHANGED <<ppc, plines, seen_options, poptions>>
    /\ UNCHANGED notParse

\* seen_options.insert(option_key); ...; options.push(CliOption { .. })
PushOption ==
    /\ ppc = "loop" /\ pidx <= Len(plines)
    /\ ~(plines[pidx].short = None /\ plines[pidx].long = None)
    /\ option_key(plines[pidx].short, plines[pidx].long) \notin seen_options
    /\ seen_options' = seen_options
          \cup {option_key(plines[pidx].short, plines[pidx].long)}
    /\ poptions' = Append(poptions, OptionOfLine(plines[pidx]))
    /\ pidx' = pidx + 1
    /\ UNCHANGED <<ppc, plines>>
    /\ UNCHANGED notParse

\* the for loop is over: options is returned
ReturnOptions ==
    /\ ppc = "loop" /\ pidx > Len(plines)
    /\ ppc' = "done"
    /\ UNCHANGED <<plines, pidx, seen_options, poptions>>
    /\ UNCHANGED notParse

ParseNext ==
    \/ SkipNoOption
    \/ SkipSeen
    \/ PushOption
    \/ ReturnOptions

--------------------------------------------------------------------------
(* OptionInferrer::infer_types and apply_numeric_constraints *)

\* s.trim_start_matches(c)
RECURSIVE TrimStartMatches(_, _)
TrimStartMatches(s, c) ==
    IF s # <<>> /\ Head(s) = c THEN TrimStartMatches(Tail(s), c) ELSE s

\* OptionPattern { pattern_type, priority, keywords }
OptionPattern(pattern_type, priority, keywords) ==
    [pattern_type |-> pattern_type, priority |-> priority,
     keywords |-> keywords]

\* the rules a configuration may list: a numeric rule with the keywords
\* port and p, a path rule with the keyword im, each at priority 1 or 2
PatternRules ==
    {OptionPattern("numeric", p, <<<<"p", "o", "r", "t">>, <<"p">>>>) :
        p \in {1, 2}}
        \cup {OptionPattern("path", p, <<<<"i", "m">>>>) : p \in {1, 2}}

\* OptionPatternsConfig.patterns
PatternTables == SeqsUpTo(PatternRules, MaxRules)

\* PatternSettings { case_sensitive, partial_match, min_keyword_length }
PatternSettings ==
    [case_sensitive : BOOLEAN, partial_match : BOOLEAN,
     min_keyword_length : {1, 3}]

\* OptionPatternsConfig.default_type
DefaultTypes == {"string", "path"}

\* the options infer_types is given: what parse_options builds for
\* --port, --import, -P and the line "-P, --port", with or without a value
TypedOptions ==
    {CliOption(n[1], n[2], None, t) :
        n \in {<<None, Some(<<"-", "-", "p", "o", "r", "t">>)>>,
               <<None, Some(<<"-", "-", "i", "m", "p", "o", "r", "t">>)>>,
               <<Some(<<"-", "P">>), None>>,
               <<Some(<<"-", "P">>), Some(<<"-", "-", "p", "o", "r", "t">>)>>},
        t \in {Flag, String}}

OptionLists == SeqsUpTo(TypedOptions, MaxOptions)

\* NumericConstraintsConfig: two constraints and the defaults
NumericConstraints ==
    {[aliases |-> <<<<"p", "o", "r", "t">>>>, min |-> 1, max |-> 65535],
     [aliases |-> <<<<"I", "m">>>>, min |-> 0, max |-> 100]}

DefaultNumericConstraints == [min |-> 0, max |-> 1000000]

\* extract_option_name: prefer long, fall back to short, dashes removed
extract_option_name(option) ==
    IF option.long # None
        THEN TrimStartMatches(option.long[1], "-")
        ELSE IF option.short # None
                 THEN TrimStartMatches(option.short[1], "-")
                 ELSE <<>>

\* matches_pattern
matches_pattern(option_name, pattern) ==
    LET name == IF settings.case_sensitive
                    THEN option_name
                    ELSE ToLowercase(option_name)
        keyword_normalized(keyword) ==
            IF settings.case_sensitive THEN keyword ELSE ToLowercase(keyword)
    IN  \E k \in 1..Len(pattern.keywords) :
            IF settings.partial_match
                THEN /\ Len(keyword_normalized(pattern.keywords[k]))
                           >= settings.min_keyword_length
                     /\ Contains(name, keyword_normalized(pattern.keywords[k]))
                ELSE name = keyword_normalized(pattern.keywords[k])

\* pattern_type_to_option_type
pattern_type_to_option_type(pattern_type) ==
    CASE pattern_type = "numeric" -> Numeric(None, None)
      [] pattern_type = "path" -> Path
      [] pattern_type = "enum" -> Enum(<<>>)
      [] pattern_type = "boolean" -> Flag
      [] OTHER -> String

\* the sort with the comparison turned round: lowest priority first
sorted_patterns_Ascending(ps) ==
    LET before(i) ==
            {j \in 1..Len(ps) :
                \/ ps[j].priority < ps[i].priority
                \/ ps[j].priority = ps[i].priority /\ j < i}
    IN  [r \in 1..Len(ps) |->
            ps[CHOOSE i \in 1..Len(ps) : Cardinality(before(i)) = r - 1]]

\* sorted_patterns.sort_by(|a, b| b.priority.cmp(&a.priority)): a stable
\* sort, highest priority first; a rule comes after the rules of higher
\* priority and after the rules of its own priority listed before it
sorted_patterns(ps) ==
    LET before(i) ==
            {j \in 1..Len(ps) :
                \/ ps[j].priority > ps[i].priority
                \/ ps[j].priority = ps[i].priority /\ j < i}
    IN  [r \in 1..Len(ps) |->
            ps[CHOOSE i \in 1..Len(ps) : Cardinality(before(i)) = r - 1]]

\* infer_type without the early return for Flag
infer_type_NoFlagCheck(option) ==
    LET option_name == extract_option_name(option)
        sorted == sorted_patterns(patterns)
        hits == {i \in 1..Len(sorted) :
                    matches_pattern(option_name, sorted[i])}
    IN  IF hits # {}
            THEN pattern_type_to_option_type(
                     sorted[CHOOSE i \in hits :
                               \A j \in hits : i <= j].pattern_type)
            ELSE pattern_type_to_option_type(default_type)

\* infer_type
infer_type(option) ==
    IF option.option_type.tag = "Flag"
        THEN Flag
        ELSE LET option_name == extract_option_name(option)
                 sorted == sorted_patterns(patterns)
                 hits == {i \in 1..Len(sorted) :
                             matches_pattern(option_name, sorted[i])}
             IN  IF hits # {}
                     THEN pattern_type_to_option_type(
                              sorted[CHOOSE i \in hits :
                                        \A j \in hits : i <= j].pattern_type)
                     ELSE pattern_type_to_option_type(default_type)

\* the name apply_numeric_constraints matches aliases against
ConstraintName(option) ==
    IF option.long # None
        THEN ToLowercase(TrimStartMatches(option.long[1], "-"))
        ELSE IF option.short # None
                 THEN ToLowercase(TrimStartMatches(option.short[1], "-"))
                 ELSE <<>>

\* constraint.aliases.iter().any(|alias| option_name.contains(..))
AliasMatches(constraint, option) ==
    \E a \in 1..Len(constraint.aliases) :
        Contains(ConstraintName(option), ToLowercase(constraint.aliases[a]))

TypesInit ==
    /\ tpc = "infer"
    /\ patterns \in PatternTables
    /\ settings \in PatternSettings
    /\ default_type \in DefaultTypes
    /\ toptions \in OptionLists
    /\ tidx = 1
    /\ ncfg = "unloaded"

TypesIdle ==
    /\ tpc = "idle"
    /\ patterns = <<>>
    /\ settings = [case_sensitive |-> FALSE, partial_match |-> TRUE,
                   min_keyword_length |-> 3]
    /\ default_type = "string"
    /\ toptions = <<>>
    /\ tidx = 0
    /\ ncfg = "unloaded"

\* infer_types: option.option_type = self.infer_type(option)
InferOne ==
    /\ tpc = "infer" /\ tidx <= Len(toptions)
    /\ toptions' = [toptions EXCEPT
                       ![tidx].option_type = infer_type(toptions[tidx])]
    /\ tidx' = tidx + 1
    /\ UNCHANGED <<tpc, patterns, settings, default_type, ncfg>>
    /\ UNCHANGED notTypes

\* infer_types returns; apply_numeric_constraints is called
InferReturn ==
    /\ tpc = "infer" /\ tidx > Len(toptions)
    /\ tpc' = "load"
    /\ tidx' = 1
    /\ UNCHANGED <<patterns, settings, default_type, toptions, ncfg>>
    /\ UNCHANGED notTypes

\* load_numeric_constraints_config() returned Ok(config)
LoadNumericOk ==
    /\ tpc = "load"
    /\ ncfg' = "Ok"
    /\ tpc' = "apply"
    /\ UNCHANGED <<patterns, settings, default_type, toptions, tidx>>
    /\ UNCHANGED notTypes

\* load_numeric_constraints_config() returned Err: warn and return
LoadNumericErr ==
    /\ tpc = "load"
    /\ ncfg' = "Err"
    /\ tpc' = "done"
    /\ UNCHANGED <<patterns, settings, default_type, toptions, tidx>>
    /\ UNCHANGED notTypes

\* the option is not Numeric: the if let does not match
ApplySkip ==
    /\ tpc = "apply" /\ tidx <= Len(toptions)
    /\ toptions[tidx].option_type.tag # "Numeric"
    /\ tidx' = tidx + 1
    /\ UNCHANGED <<tpc, patterns, settings, default_type, toptions, ncfg>>
    /\ UNCHANGED notTypes

\* the first constraint of config.constraints.values() with a matching
\* alias: the iteration order of a HashMap is unspecified, so any matching
\* constraint may be the first
ApplyMatched ==
    /\ tpc = "apply" /\ tidx <= Len(toptions)
    /\ toptions[tidx].option_type.tag = "Numeric"
    /\ \E constraint \in NumericConstraints :
          /\ AliasMatches(constraint, toptions[tidx])
          /\ toptions' = [toptions EXCEPT ![tidx].option_type =
                             Numeric(Some(constraint.min),
                                     Some(constraint.max))]
    /\ tidx' = tidx + 1
    /\ UNCHANGED <<tpc, patterns, settings, default_type, ncfg>>
    /\ UNCHANGED notTypes

\* the default branch setting the lower bound only
ApplyDefault_MinOnly ==
    /\ tpc = "apply" /\ tidx <= Len(toptions)
    /\ toptions[tidx].option_type.tag = "Numeric"
    /\ \A constraint \in NumericConstraints :
          ~AliasMatches(constraint, toptions[tidx])
    /\ toptions' = [toptions EXCEPT ![tidx].option_type =
                       Numeric(Some(DefaultNumericConstraints.min), None)]
    /\ tidx' = tidx + 1
    /\ UNCHANGED <<tpc, patterns, settings, default_type, ncfg>>
    /\ UNCHANGED notTypes

\* if !matched: the default constraints
ApplyDefault ==
    /\ tpc = "apply" /\ tidx <= Len(toptions)
    /\ toptions[tidx].option_type.tag = "Numeric"
    /\ \A constraint \in NumericConstraints :
          ~AliasMatches(constraint, toptions[tidx])
    /\ toptions' = [toptions EXCEPT ![tidx].option_type =
                       Numeric(Some(DefaultNumericConstraints.min),
                               Some(DefaultNumericConstraints.max))]
    /\ tidx' = tidx + 1
    /\ UNCHANGED <<tpc, patterns, settings, default_type, ncfg>>
    /\ UNCHANGED notTypes

\* the for loop of apply_numeric_constraints is over
ApplyReturn ==
    /\ tpc = "apply" /\ tidx > Len(toptions)
    /\ tpc' = "done"
    /\ UNCHANGED <<patterns, settings, default_type, toptions, tidx, ncfg>>
    /\ UNCHANGED notTypes

TypesNext ==
    \/ InferOne
    \/ InferReturn
    \/ LoadNumericOk
    \/ LoadNumericErr
    \/ ApplySkip
    \/ ApplyMatched
    \/ ApplyDefault
    \/ ApplyReturn

--------------------------------------------------------------------------
(* CliParser::analyze, step 4 *)

\* the option lists parse_options builds from a top-level help text: here
\* those that give every option by its long name
GlobalOptionLists ==
    {l \in OptionLists : \A i \in 1..Len(l) : l[i].short = None}

\* let global_options = self.parse_options(&help_output);
\* parse_options is modelled line by line in SpecParse; here its result is
\* any of these lists
ParseGlobalOptions ==
    /\ apc = "parse"
    /\ global_options' \in GlobalOptionLists
    /\ apc' = "detect"
    /\ UNCHANGED <<hk, vk, help_output, version, subcommands, aresult>>
    /\ UNCHANGED notAn

AnNext ==
    \/ ValidateFails
    \/ ValidateOk
    \/ BinaryName
    \/ HelpProbeOk
    \/ HelpProbeErr
    \/ HelpChainErr
    \/ CheckHelp
    \/ VersionFound
    \/ VersionMiss
    \/ ParseGlobalOptions
    \/ DetectSubcommands
    \/ BuildAnalysis

\* the OptionInferrer of SubcommandDetector::default(), with its table
\* loaded: a numeric rule, the settings and the default type of the fallback
InferrerLoaded ==
    /\ tpc = "idle"
    /\ patterns = <<OptionPattern("numeric", 2,
                                  <<<<"p", "o", "r", "t">>, <<"p">>>>)>>
    /\ settings = [case_sensitive |-> FALSE, partial_match |-> TRUE,
                   min_keyword_length |-> 3]
    /\ default_type = "string"
    /\ toptions = <<>>
    /\ tidx = 0
    /\ ncfg = "unloaded"

--------------------------------------------------------------------------
(* The configuration caches: OptionInferrer::from_config_path,
   load_numeric_constraints_config, load_enum_definitions_config *)

\* threads of the process that call into the inference engine
Threads == {"t1", "t2"}

\* the three lazy_static Mutex<Option<..>> caches
Caches ==
    {"PATTERN_CACHE", "NUMERIC_CONSTRAINTS_CACHE", "ENUM_DEFINITIONS_CACHE"}

\* the file a call reads on a miss: from_config_path reads its argument,
\* the other two loaders a fixed path
ConfigPaths(c) ==
    CASE c = "PATTERN_CACHE" ->
            {"config/option-patterns.yaml", "custom/patterns.yaml"}
      [] c = "NUMERIC_CONSTRAINTS_CACHE" -> {"config/numeric-constraints.yaml"}
      [] c = "ENUM_DEFINITIONS_CACHE" -> {"config/enum-definitions.yaml"}

\* the table deserialize_yaml_safe makes of the content of a file
TableOf(path) == <<"table of", path>>

NotCalling == [pc |-> "idle", cache |-> "none", path |-> "none"]

CacheInit ==
    /\ cthread = [t \in Threads |-> NotCalling]
    /\ mutex = [c \in Caches |-> "free"]
    /\ cache = [c \in Caches |-> None]
    /\ reads = [c \in Caches |-> 0]
    /\ loads = [c \in Caches |-> 0]
    /\ returned = [c \in Caches |-> {}]
    /\ ncalls = 0

CacheIdle ==
    /\ cthread = <<>>
    /\ mutex = <<>>
    /\ cache = <<>>
    /\ reads = <<>>
    /\ loads = <<>>
    /\ returned = <<>>
    /\ ncalls = 0

\* a thread calls from_config_path(config_path), or one of the two loaders
\* through apply_numeric_constraints / load_enum_values
CallLoader(t) ==
    /\ cthread[t].pc = "idle"
    /\ ncalls < MaxCalls
    /\ \E c \in Caches : \E path \in ConfigPaths(c) :
          cthread' = [cthread EXCEPT
                         ![t] = [pc |-> "lock", cache |-> c, path |-> path]]
    /\ ncalls' = ncalls + 1
    /\ UNCHANGED <<mutex, cache, reads, loads, returned>>
    /\ UNCHANGED notCache

\* the guard taken without waiting for the thread that holds it
LockCache_NoMutex(t) ==
    /\ cthread[t].pc = "lock"
    /\ mutex' = [mutex EXCEPT ![cthread[t].cache] = t]
    /\ cthread' = [cthread EXCEPT ![t].pc = "check"]
    /\ UNCHANGED <<cache, reads, loads, returned, ncalls>>
    /\ UNCHANGED notCache

\* let mut cache = CACHE.lock().unwrap();  blocks while another thread
\* holds the guard
LockCache(t) ==
    /\ cthread[t].pc = "lock"
    /\ mutex[cthread[t].cache] = "free"
    /\ mutex' = [mutex EXCEPT ![cthread[t].cache] = t]
    /\ cthread' = [cthread EXCEPT ![t].pc = "check"]
    /\ UNCHANGED <<cache, reads, loads, returned, ncalls>>
    /\ UNCHANGED notCache

\* a populated cache reloaded from the caller's own config_path
CacheHit_Reload(t) ==
    /\ cthread[t].pc = "check"
    /\ cache[cthread[t].cache] # None
    /\ reads' = [reads EXCEPT ![cthread[t].cache] = @ + 1]
    /\ cache' = [cache EXCEPT
                    ![cthread[t].cache] = Some(TableOf(cthread[t].path))]
    /\ cthread' = [cthread EXCEPT ![t].pc = "clone"]
    /\ UNCHANGED <<mutex, loads, returned, ncalls>>
    /\ UNCHANGED notCache

\* if cache.is_none() is false: nothing is read
CacheHit(t) ==
    /\ cthread[t].pc = "check"
    /\ cache[cthread[t].cache] # None
    /\ cthread' = [cthread EXCEPT ![t].pc = "clone"]
    /\ UNCHANGED <<mutex, cache, reads, loads, returned, ncalls>>
    /\ UNCHANGED notCache

\* cache.is_none(): read_to_string(path)? or deserialize_yaml_safe(..)?
\* returns the error; the guard is dropped, the cache is still None
LoadFails(t) ==
    /\ cthread[t].pc = "check"
    /\ cache[cthread[t].cache] = None
    /\ reads' = [reads EXCEPT ![cthread[t].cache] = @ + 1]
    /\ mutex' = [mutex EXCEPT ![cthread[t].cache] = "free"]
    /\ cthread' = [cthread EXCEPT ![t] = NotCalling]
    /\ UNCHANGED <<cache, loads, returned, ncalls>>
    /\ UNCHANGED notCache

\* cache.is_none(): the file is read and parsed; *cache = Some(config)
LoadOk(t) ==
    /\ cthread[t].pc = "check"
    /\ cache[cthread[t].cache] = None
    /\ reads' = [reads EXCEPT ![cthread[t].cache] = @ + 1]
    /\ loads' = [loads EXCEPT ![cthread[t].cache] = @ + 1]
    /\ cache' = [cache EXCEPT
                    ![cthread[t].cache] = Some(TableOf(cthread[t].path))]
    /\ cthread' = [cthread EXCEPT ![t].pc = "clone"]
    /\ UNCHANGED <<mutex, returned, ncalls>>
    /\ UNCHANGED notCache

\* cache.as_ref().unwrap().clone(); Ok(..); the guard is dropped on return
CloneReturn(t) ==
    /\ cthread[t].pc = "clone"
    /\ returned' = [returned EXCEPT
                       ![cthread[t].cache] = @ \cup {cache[cthread[t].cache][1]}]
    /\ mutex' = [mutex EXCEPT ![cthread[t].cache] = "free"]
    /\ cthread' = [cthread EXCEPT ![t] = NotCalling]
    /\ UNCHANGED <<cache, reads, loads, ncalls>>
    /\ UNCHANGED notCache

CacheNext ==
    \E t \in Threads :
        \/ CallLoader(t)
        \/ LockCache(t)
        \/ CacheHit(t)
        \/ LoadFails(t)
        \/ LoadOk(t)
        \/ CloneReturn(t)

--------------------------------------------------------------------------
(* Strategy selection and test generation: utils/parallel.rs,
   TestGenerator::generate_with_strategy *)

\* the categories a generator is built with in the model
TestCategories == {"Basic", "Help", "Security"}

\* lists of distinct categories
CategoryLists ==
    {l \in UNION {[1..n -> TestCategories] : n \in 0..MaxCategories} :
        \A i, j \in 1..Len(l) : i # j => l[i] # l[j]}

Max(a, b) == IF a >= b THEN a ELSE b

Clamp(x, lo, hi) == IF x < lo THEN lo ELSE IF x > hi THEN hi ELSE x

\* estimate_tests_per_category
estimate_tests_per_category(global_options_len, subcommands_len, num_categories) ==
    IF num_categories = 0 THEN 0
    ELSE LET complexity_score == global_options_len + subcommands_len
             avg_tests_per_category ==
                 (Max(complexity_score, 1) * 2) \div Max(num_categories, 1)
         IN  Clamp(avg_tests_per_category, 5, 50)

\* Workload::new
Workload ==
    [num_categories |-> Len(categories),
     estimated_tests_per_category |->
         estimate_tests_per_category(num_global_options, num_subcommands,
                                     Len(categories)),
     num_cpus |-> num_cpus]

\* Workload::total_estimated_tests
total_estimated_tests(workload) ==
    workload.num_categories * workload.estimated_tests_per_category

\* choose_strategy
choose_strategy(workload) ==
    LET total_tests == total_estimated_tests(workload)
    IN  IF total_tests < 20 \/ workload.num_categories <= 1
        THEN "Sequential"
        ELSE IF total_tests < 100 \/ workload.num_cpus < 4
        THEN "CategoryLevel"
        ELSE "TestLevel"

\* the thread that builds the test cases of a category when its generate_*
\* function runs on thread `by`: generate_help_tests hands the subcommands
\* to rayon's par_iter when there are 10 or more, every other generator is
\* a plain loop
tests_thread(category, by) ==
    IF category = "Help" /\ num_subcommands >= 10 THEN "worker" ELSE by

StratInit ==
    /\ spc = "choose"
    /\ categories \in CategoryLists
    /\ num_global_options \in 0..MaxGlobalOptions
    /\ num_subcommands \in 0..MaxSubcommands
    /\ num_cpus \in 1..MaxCpus
    /\ strategy = "none"
    /\ generated = {}
    /\ ran = {}

StratIdle ==
    /\ spc = "idle"
    /\ categories = <<>>
    /\ num_global_options = 0
    /\ num_subcommands = 0
    /\ num_cpus = 0
    /\ strategy = "none"
    /\ generated = {}
    /\ ran = {}

\* let strategy = choose_strategy(&workload)
ChooseStrategy ==
    /\ spc = "choose"
    /\ strategy' = choose_strategy(Workload)
    /\ spc' = "generate"
    /\ UNCHANGED <<categories, num_global_options, num_subcommands, num_cpus,
                   generated, ran>>
    /\ UNCHANGED notStrat

\* generate(): the body of `for category in &self.categories`, on the
\* calling thread, in list order
GenerateInOrder ==
    /\ spc = "generate"
    /\ strategy = "Sequential"
    /\ \E i \in 1..Len(categories) :
          /\ i \notin generated
          /\ \A j \in 1..(i - 1) : j \in generated
          /\ generated' = generated \cup {i}
          /\ ran' = ran \cup {[category |-> categories[i],
                               by |-> "caller",
                               tests_by |-> tests_thread(categories[i],
                                                         "caller")]}
    /\ UNCHANGED <<spc, categories, num_global_options, num_subcommands,
                   num_cpus, strategy>>
    /\ UNCHANGED notStrat

\* generate_parallel(): the closure of self.categories.par_iter().map(..),
\* on a rayon worker, for the categories in any order
GenerateOnWorker ==
    /\ spc = "generate"
    /\ strategy \in {"CategoryLevel", "TestLevel"}
    /\ \E i \in 1..Len(categories) :
          /\ i \notin generated
          /\ generated' = generated \cup {i}
          /\ ran' = ran \cup {[category |-> categories[i],
                               by |-> "worker",
                               tests_by |-> tests_thread(categories[i],
                                                         "worker")]}
    /\ UNCHANGED <<spc, categories, num_global_options, num_subcommands,
                   num_cpus, strategy>>
    /\ UNCHANGED notStrat

\* Ok(all_tests)
GenerateReturn ==
    /\ spc = "generate"
    /\ generated = 1..Len(categories)
    /\ spc' = "done"
    /\ UNCHANGED <<categories, num_global_options, num_subcommands, num_cpus,
                   strategy, generated, ran>>
    /\ UNCHANGED notStrat

StratNext ==
    \/ ChooseStrategy
    \/ GenerateInOrder
    \/ GenerateOnWorker
    \/ GenerateReturn

--------------------------------------------------------------------------
(* BATS execution: BatsExecutor::run_tests, execute_suite *)

\* the .bats files of a test directory, named by their rank in sorted order
BatsFiles == 1..MaxSuites

\* find_bats_files sorts the paths; retain() keeps the order of those left
SortedFileLists ==
    {l \in UNION {[1..n -> BatsFiles] : n \in 1..MaxSuites} :
        \A i, j \in 1..Len(l) : i < j => l[i] < l[j]}

BatsInit ==
    /\ bpc = "loop"
    /\ bats_files \in SortedFileLists
    /\ hangs \in SUBSET BatsFiles
    /\ bidx = 1
    /\ bats = [f \in BatsFiles |-> "none"]
    /\ suites = <<>>
    /\ timed_out = {}

BatsIdle ==
    /\ bpc = "idle"
    /\ bats_files = <<>>
    /\ hangs = {}
    /\ bidx = 0
    /\ bats = <<>>
    /\ suites = <<>>
    /\ timed_out = {}

\* execute_suite: spawn_blocking(|| Command::new("bats")...output()) puts
\* the call on a thread of the runtime's blocking pool, which starts bats
\* and waits for it
StartSuite ==
    /\ bpc = "loop"
    /\ bidx <= Len(bats_files)
    /\ bats' = [bats EXCEPT ![bats_files[bidx]] = "running"]
    /\ bpc' = "await"
    /\ UNCHANGED <<bats_files, hangs, bidx, suites, timed_out>>
    /\ UNCHANGED notBats

\* execute_suite: bats cannot be started; output() returns the io::Error,
\* execute_suite "Failed to execute BATS", and run_tests goes on
SuiteSpawnFails ==
    /\ bpc = "loop"
    /\ bidx <= Len(bats_files)
    /\ bidx' = bidx + 1
    /\ UNCHANGED <<bpc, bats_files, hangs, bats, suites, timed_out>>
    /\ UNCHANGED notBats

\* a bats process that does not hang finishes, whether or not run_tests
\* still waits for it
BatsExits(f) ==
    /\ bats[f] = "running"
    /\ f \notin hangs
    /\ bats' = [bats EXCEPT ![f] = "exited"]
    /\ UNCHANGED <<bpc, bats_files, hangs, bidx, suites, timed_out>>
    /\ UNCHANGED notBats

\* the blocking task resolves inside the timeout: the TAP output is parsed
\* and run_tests pushes the suite
SuiteCompletes ==
    /\ bpc = "await"
    /\ bats[bats_files[bidx]] = "exited"
    /\ suites' = Append(suites, bats_files[bidx])
    /\ bidx' = bidx + 1
    /\ bpc' = "loop"
    /\ UNCHANGED <<bats_files, hangs, bats, timed_out>>
    /\ UNCHANGED notBats

\* tokio::time::timeout elapses first: the JoinHandle is dropped, which
\* neither stops the blocking thread nor kills bats; execute_suite returns
\* the timeout error and run_tests warns and goes on
SuiteTimesOut ==
    /\ bpc = "await"
    /\ bats[bats_files[bidx]] = "running"
    /\ timed_out' = timed_out \cup {bats_files[bidx]}
    /\ bidx' = bidx + 1
    /\ bpc' = "loop"
    /\ UNCHANGED <<bats_files, hangs, bats, suites>>
    /\ UNCHANGED notBats

\* the for loop is over: the TestReport is built from `suites`
BuildReport ==
    /\ bpc = "loop"
    /\ bidx > Len(bats_files)
    /\ bpc' = "drop"
    /\ UNCHANGED <<bats_files, hangs, bidx, bats, suites, timed_out>>
    /\ UNCHANGED notBats

\* run_tests returns: its local `runtime` is dropped, and the drop of a
\* tokio Runtime joins the threads of the blocking pool, each of which is
\* inside Command::output() until its bats process has finished
DropRuntime ==
    /\ bpc = "drop"
    /\ \A f \in BatsFiles : bats[f] # "running"
    /\ bpc' = "returned"
    /\ UNCHANGED <<bats_files, hangs, bidx, bats, suites, timed_out>>
    /\ UNCHANGED notBats

BatsNext ==
    \/ StartSuite
    \/ SuiteSpawnFails
    \/ \E f \in BatsFiles : BatsExits(f)
    \/ SuiteCompletes
    \/ SuiteTimesOut
    \/ BuildReport
    \/ DropRuntime

--------------------------------------------------------------------------
(* Specifications *)

ExecIdle ==
    /\ epc = "idle"
    /\ timeout = 0
    /\ elapsed = 0
    /\ child = "none"
    /\ killSent = FALSE
    /\ toWrite = 0
    /\ pipeBuf = 0
    /\ captured = 0
    /\ errOut = FALSE
    /\ holder = FALSE
    /\ forked = FALSE
    /\ eresult = NoResult
    /\ spawned = {}

DetNext ==
    \/ DetectCall
    \/ SkipVisited
    \/ VisitCandidate
    \/ ProbeFails
    \/ DropCandidate
    \/ ProbeSucceeds
    \/ ReturnNested
    \/ ReturnDetect

\* one call of execute_with_timeout_and_limits
InitExec ==
    ExecInit /\ HookIdle /\ DetIdle /\ AnIdle /\ InfIdle /\ ParseIdle
        /\ TypesIdle /\ CacheIdle /\ StratIdle /\ BatsIdle
SpecExec == InitExec /\ [][ExecNext]_vars

\* one run of the pre_exec closure in a forked child
InitHook ==
    HookInit /\ ExecIdle /\ DetIdle /\ AnIdle /\ InfIdle /\ ParseIdle
        /\ TypesIdle /\ CacheIdle /\ StratIdle /\ BatsIdle
SpecHook == InitHook /\ [][HookNext]_vars

\* one call of SubcommandDetector::detect
InitDetect ==
    DetInit /\ ExecIdle /\ HookIdle /\ AnIdle /\ InfIdle /\ ParseIdle
        /\ TypesIdle /\ CacheIdle /\ StratIdle /\ BatsIdle
SpecDetect == InitDetect /\ [][DetNext]_vars

\* detect() with every probe returning: the calling thread keeps running
SpecDetectFair == SpecDetect /\ WF_vars(DetNext)

\* one call of CliParser::analyze
InitAnalyze ==
    AnInit /\ ExecIdle /\ HookIdle /\ DetIdle /\ InfIdle /\ ParseIdle
        /\ InferrerLoaded /\ CacheIdle /\ StratIdle /\ BatsIdle
SpecAnalyze == InitAnalyze /\ [][AnNext]_vars

\* one call of BehaviorInferrer::infer_no_args_behavior
InitInfer ==
    InfInit /\ ExecIdle /\ HookIdle /\ DetIdle /\ AnIdle /\ ParseIdle
        /\ TypesIdle /\ CacheIdle /\ StratIdle /\ BatsIdle
SpecInfer == InitInfer /\ [][InfNext]_vars

\* one call of CliParser::parse_options
InitParse ==
    ParseInit /\ ExecIdle /\ HookIdle /\ DetIdle /\ AnIdle /\ InfIdle
        /\ TypesIdle /\ CacheIdle /\ StratIdle /\ BatsIdle
SpecParse == InitParse /\ [][ParseNext]_vars

\* infer_types followed by apply_numeric_constraints on the same options
InitTypes ==
    TypesInit /\ ExecIdle /\ HookIdle /\ DetIdle /\ AnIdle /\ InfIdle
        /\ ParseIdle /\ CacheIdle /\ StratIdle /\ BatsIdle
SpecTypes == InitTypes /\ [][TypesNext]_vars

\* threads calling the three cached loaders
InitCache ==
    CacheInit /\ ExecIdle /\ HookIdle /\ DetIdle /\ AnIdle /\ InfIdle
        /\ ParseIdle /\ TypesIdle /\ StratIdle /\ BatsIdle
SpecCache == InitCache /\ [][CacheNext]_vars

\* generate_with_strategy on one workload
InitStrategy ==
    StratInit /\ ExecIdle /\ HookIdle /\ DetIdle /\ AnIdle /\ InfIdle
        /\ ParseIdle /\ TypesIdle /\ CacheIdle /\ BatsIdle
SpecStrategy == InitStrategy /\ [][StratNext]_vars

\* run_tests over a directory of suites
InitBats ==
    BatsInit /\ ExecIdle /\ HookIdle /\ DetIdle /\ AnIdle /\ InfIdle
        /\ ParseIdle /\ TypesIdle /\ CacheIdle /\ StratIdle
SpecBats == InitBats /\ [][BatsNext]_vars

\* the same under the scheduling the code relies on: the thread of run_tests
\* and every bats process that does not hang keep running
SpecBatsFair == SpecBats /\ WF_vars(BatsNext)

--------------------------------------------------------------------------
(* Properties of the execution gate (SpecExec) *)

C3_ReturnsWithinTimeoutPlusPoll == elapsed <= timeout + 1

\* C4: every probe of the target binary is spawned with stdin bound to the
\* null device and with NO_COLOR=1 and TERM=dumb in its environment.
C4_ProbesNonInteractive ==
    \A p \in spawned : p.stdin = "null" /\ NoColorEnv \subseteq p.env

\* C26: execute_with_timeout returns Ok(output) for a child that would exit
\* once its output is drained: the call never ends in a Timeout failure with
\* the child stopped on a write to a full pipe that still has output to take.
C26_BlockedWriterNotTimedOut ==
    eresult = ErrTimeout => ~(toWrite > 0 /\ pipeBuf = PipeCap)

--------------------------------------------------------------------------
(* Properties of the pre_exec closure (SpecHook) *)

\* C8: for each of the three resources the hook only lowers limits: neither
\* the soft nor the hard limit of the child is ever higher than the limit
\* the child inherited.
C8_HookOnlyLowers ==
    \A r \in Resources :
        /\ rl[r].cur <= inherited[r].cur
        /\ rl[r].max <= inherited[r].max

\* C9 (as claimed): if setrlimit fails for a lowering limit, the probe
\* fails: the child does not go on to exec the target and spawn reports an
\* error.
C9_SetrlimitFailureIsFatal ==
    (setFailed # {} /\ spawnRet # "pending") => spawnRet = "Err"

\* C9 (amended): a failing setrlimit is ignored by the hook: the closure
\* never returns an error, the limit of that resource stays as inherited,
\* and the child goes on to exec the target.
C9_SetrlimitFailureIgnored ==
    /\ hookRet \in {"pending", "Ok"}
    /\ hidx = 5 => hookRet = "Ok"
    /\ \A r \in setFailed : rl[r] = inherited[r]
    /\ (useLimits /\ spawnRet # "pending") => hookRet = "Ok"

\* a setrlimit call failed and the target was exec'ed all the same
C9_Witness ==
    /\ setFailed # {}
    /\ hookRet = "Ok"
    /\ spawnRet = "Ok"

--------------------------------------------------------------------------
(* Properties of subcommand discovery (SpecDetect, SpecDetectFair) *)

\* the nodes built so far: those of every activation, and of the result
RECURSIVE NodesOfStack(_)
NodesOfStack(n) ==
    IF n = 0 THEN <<>>
    ELSE NodesOfStack(n - 1) \o AllNodes(dstack[n].subcommands)

NodesSoFar ==
    IF dphase = "done" THEN AllNodes(dret) ELSE NodesOfStack(Len(dstack))

\* every node sits one level below its parent, the top level at depth d
RECURSIVE DepthsFrom(_, _)
DepthsFrom(tree, d) ==
    \A i \in 1..Len(tree) :
        /\ tree[i].depth = d
        /\ DepthsFrom(tree[i].subcommands, d + 1)

\* C5: in the tree detect() returns, the depth of every node, at every
\* nesting level, never exceeds max_depth (it stays below it), and no help
\* text is probed or scanned at a depth >= max_depth.
C5_DepthWithinMax ==
    /\ \A i \in 1..Len(NodesSoFar) : NodesSoFar[i].depth < max_depth
    /\ \A d \in scannedAt \cup probedAt : d < max_depth
    /\ dphase = "done" => DepthsFrom(dret, 0)
    /\ Len(dstack) <= max_depth + 1

\* detect() returned a tree that reaches the deepest level allowed
C5_Witness ==
    /\ dphase = "done"
    /\ max_depth = 2
    /\ \E i \in 1..Len(NodesSoFar) : NodesSoFar[i].depth = 1

\* C6: in the tree detect() returns, no two nodes, at any depths and under
\* any parents, have the same (binary path, name) key, also when a help text
\* lists the subcommand's own name, an ancestor's or a sibling's.
C6_NoDuplicateKeys ==
    \A i, j \in 1..Len(NodesSoFar) :
        i # j => VisitKey(BinaryPath, NodesSoFar[i].name)
                    # VisitKey(BinaryPath, NodesSoFar[j].name)

\* detect() returned two nodes or more, and every key it visited is the key
\* of at most one of them
C6_Witness ==
    /\ dphase = "done"
    /\ Len(NodesSoFar) >= 2
    /\ Len(dret) = 2
    /\ Cardinality(visited) > Len(NodesSoFar)

\* C7: detect() terminates for every binary whose probes each return: it
\* issues finitely many probes and returns, also when help texts list the
\* same names again or fresh names at every level.
C7_DetectTerminates == <>(dphase = "done")

\* detect() returned after visiting every name, each nested in the previous
C7_Witness ==
    /\ dphase = "done"
    /\ Cardinality(visited) = Cardinality(Names)
    /\ Len(dret) = 1
    /\ Len(dret[1].subcommands) = 1

\* C15: a candidate whose three help probes all fail or return empty output
\* is dropped and discovery goes on with the next sibling: the step after
\* the third failure stays inside the same activation, moves to the next
\* candidate and keeps every node built so far; no step of discovery loses
\* a node, and detect() returns a tree, never an error.
C15_DroppedCandidateNotFatal ==
    /\ [][(dphase = "run" /\ Top.k = 3 /\ Len(dstack') <= Len(dstack)) =>
            /\ dphase' = "run"
            /\ Len(dstack') = Len(dstack)
            /\ \A n \in 1..(Len(dstack) - 1) : dstack'[n] = dstack[n]
            /\ Top' = [Top EXCEPT !.k = 0, !.i = Top.i + 1]]_vars
    /\ [][dphase = "run" =>
            /\ dphase' \in {"run", "done"}
            /\ {<<NodesSoFar[n].name, NodesSoFar[n].depth>> :
                    n \in 1..Len(NodesSoFar)}
                 \subseteq {<<NodesSoFar'[n].name, NodesSoFar'[n].depth>> :
                               n \in 1..Len(NodesSoFar')}]_vars

\* detect() returned one node after dropping the two other candidates
C15_Witness ==
    /\ dphase = "done"
    /\ Len(NodesSoFar) = 1
    /\ Cardinality(visited) = 3

\* the names of a list of nodes, in order
NodeNames(nodes) == [n \in 1..Len(nodes) |-> nodes[n].name]

\* C22: the top-level list and the children of every node are in the order
\* in which their names were first seen in the scanned help text: the nodes
\* an activation has built are its candidates at some of the positions it
\* has passed, each the first occurrence of its name, in candidate order; a
\* returning activation hands its list on as it is, to the parent's node or
\* to the caller of detect().
C22_FirstSeenOrder ==
    /\ [](\A a \in 1..Len(dstack) :
            \E keep \in SUBSET (1..(dstack[a].i - 1)) :
                /\ NodeNames(dstack[a].subcommands)
                      = Pick(SubSeq(dstack[a].cands, 1, dstack[a].i - 1), keep)
                /\ \A p \in keep : \A q \in 1..(p - 1) :
                      dstack[a].cands[q] # dstack[a].cands[p])
    /\ [][/\ (dphase = "run" /\ dphase' = "done") => dret' = Top.subcommands
          /\ (dphase = "run" /\ dphase' = "run"
                 /\ Len(dstack') = Len(dstack) - 1) =>
                LET caller == dstack[Len(dstack) - 1]
                IN  Top'.subcommands
                       = Append(caller.subcommands,
                                Subcommand(caller.cands[caller.i],
                                           Top.subcommands, caller.depth))]_vars

\* the top-level activation has passed two candidates of different names and
\* built a node for each, the first of them with a child of its own
C22_Witness ==
    /\ dphase = "run"
    /\ Len(dstack) = 1
    /\ Top.i = 3
    /\ Top.cands[1] # Top.cands[2]
    /\ NodeNames(Top.subcommands) = <<Top.cands[1], Top.cands[2]>>
    /\ Len(Top.subcommands[1].subcommands) = 1

\* C25: discovery is sequential and depth-first: only the innermost
\* activation has a probe in flight or moves to its next candidate, and every
\* other activation waits, at the candidate it probed, for the nested call to
\* return.
C25_OneProbeDepthFirst ==
    /\ [](\A a \in 1..(Len(dstack) - 1) :
            /\ dstack[a].k = 4
            /\ dstack[a].i <= Len(dstack[a].cands))
    /\ [][\A a \in 1..Len(dstack) :
            (a <= Len(dstack') /\ dstack'[a].i # dstack[a].i)
                => a = Len(dstack')]_vars

\* a probe of a nested candidate is in flight while the top-level activation
\* still has a sibling to go to
C25_Witness ==
    /\ dphase = "run"
    /\ Len(dstack) = 2
    /\ Top.k \in 1..3
    /\ dstack[1].i < Len(dstack[1].cands)

\* C27: every candidate of the top-level help text is probed by the
\* top-level loop, and so becomes a depth-0 node when its probe returns help:
\* the loop finds a candidate already visited only when the top-level text
\* itself listed the name before.
C27_TopLevelCandidatesProbed ==
    (/\ InLoop
     /\ Len(dstack) = 1
     /\ VisitKey(BinaryPath, Top.cands[Top.i]) \in visited)
        => \E q \in 1..(Top.i - 1) : Top.cands[q] = Top.cands[Top.i]

--------------------------------------------------------------------------
(* Properties of analyze (SpecAnalyze) *)

C14_FirstNonEmptyHelpUsed ==
    /\ (apc = "check" /\ hk < 3) => help_output # <<>>
    /\ aresult.kind = "InvalidHelpOutput" => hk = 3
    /\ (apc = "done" /\ hk = 3 /\ aresult.kind # "Ok") =>
          aresult.kind = "InvalidHelpOutput"

C24_GlobalOptionsInferred ==
    (apc = "done" /\ aresult.kind = "Ok") =>
        /\ Len(aresult.global_options) = Len(global_options)
        /\ \A i \in 1..Len(global_options) :
              aresult.global_options[i]
                 = [global_options[i] EXCEPT
                       !.option_type = infer_type(global_options[i])]

--------------------------------------------------------------------------
(* Properties of the no-args classifier (SpecInfer) *)

\* C10: if the binary name contains a name of the interactive allowlist,
\* infer_no_args_behavior returns Interactive whatever the help text and the
\* subcommands are, and no process is started between call and return.
C10_InteractiveWithoutSpawn ==
    (\E tool \in INTERACTIVE_TOOLS : Contains(binary_name, tool)) =>
        /\ mspawned = {}
        /\ mchild = "none"
        /\ ipc \in {"strategy0", "done"}
        /\ ipc = "done" => verdict = "Interactive"

\* Interactive returned for a name that merely contains an allowlist name,
\* against a Usage line and subcommands that say RequireSubcommand
C10_Witness ==
    /\ ipc = "done"
    /\ verdict = "Interactive"
    /\ binary_name \notin INTERACTIVE_TOOLS
    /\ usage_lines # <<>>
    /\ requires_subcommand_from_usage(usage_lines[1])
    /\ has_subcommands

\* C11: for a name off the allowlist, when the no-args probe completes
\* within its timeout the exit code alone decides: 0 gives ShowHelp, 1 or 2
\* RequireSubcommand, any other code (and a death by signal) ShowHelp; when
\* the probe times out the child is killed and reaped, the strategy gives no
\* verdict and the Usage-line strategy is next.
C11_ExitCodeDecides ==
    /\ mstatus # <<>> =>
          /\ ipc = "done"
          /\ mchild = "reaped"
          /\ mstatus[1] = 0 => verdict = "ShowHelp"
          /\ mstatus[1] \in {1, 2} => verdict = "RequireSubcommand"
          /\ mstatus[1] \notin {0, 1, 2} => verdict = "ShowHelp"
    /\ (mspawned # {} /\ mstatus = <<>> /\ ipc # "wait_timeout") =>
          /\ mchild = "reaped"
          /\ ipc \in {"strategy2", "strategy3", "done"}
          /\ ipc = "strategy2" => verdict = "none"

\* exit code 2 gave RequireSubcommand against a Usage line of options only
C11_Witness ==
    /\ ipc = "done"
    /\ mstatus = <<2>>
    /\ verdict = "RequireSubcommand"
    /\ usage_lines # <<>>
    /\ is_optional_only_from_usage(usage_lines[1])
    /\ ~has_subcommands

\* C12: the strategies (allowlist, no-args probe, Usage line, subcommands,
\* default) run in that order and the first that gives a verdict decides; a
\* later one runs only if every earlier one gave none, and the value
\* returned is one of ShowHelp, RequireSubcommand, Interactive.
C12_FirstVerdictDecides ==
    LET interactive ==
            \E tool \in INTERACTIVE_TOOLS : Contains(binary_name, tool)
        usage_requires ==
            usage_lines # <<>>
                /\ requires_subcommand_from_usage(usage_lines[1])
        usage_optional ==
            usage_lines # <<>> /\ is_optional_only_from_usage(usage_lines[1])
        first_verdict ==
            IF interactive THEN "Interactive"
            ELSE IF mstatus # <<>>
               THEN (IF mstatus[1] \in {1, 2} THEN "RequireSubcommand"
                     ELSE "ShowHelp")
            ELSE IF usage_requires THEN "RequireSubcommand"
            ELSE IF usage_optional THEN "ShowHelp"
            ELSE IF has_subcommands THEN "RequireSubcommand"
            ELSE "ShowHelp"
    IN  /\ ipc = "done" =>
              /\ verdict \in {"ShowHelp", "RequireSubcommand", "Interactive"}
              /\ verdict = first_verdict
        /\ ipc \in {"strategy0", "strategy1", "wait_timeout", "strategy2",
                    "strategy3"} => verdict = "none"
        /\ ipc \in {"strategy1", "wait_timeout"} => ~interactive
        /\ ipc = "strategy2" => ~interactive /\ mstatus = <<>>
        /\ ipc = "strategy3" =>
              /\ ~interactive /\ mstatus = <<>>
              /\ ~usage_requires /\ ~usage_optional

\* the Usage line decided ShowHelp although subcommands were discovered,
\* the probe having given no verdict
C12_Witness ==
    /\ ipc = "done"
    /\ verdict = "ShowHelp"
    /\ has_subcommands
    /\ mstatus = <<>>
    /\ usage_lines # <<>>

--------------------------------------------------------------------------
(* Properties of parse_options (SpecParse) *)

\* C18: parse_options deduplicates: among the options built from the lines
\* read so far no two have the same (short, long) pair, each has a short or
\* a long name, and the options are, in order, those built from the first
\* line of each pair (its description, its Flag/String type).
C18_ParseOptionsDeduplicates ==
    LET has_option(j) == plines[j].short # None \/ plines[j].long # None
        firsts ==
            {j \in 1..(pidx - 1) :
                /\ has_option(j)
                /\ \A i \in 1..(j - 1) :
                      ~(/\ plines[i].short = plines[j].short
                        /\ plines[i].long = plines[j].long)}
    IN  /\ \A a, b \in 1..Len(poptions) :
              a # b => <<poptions[a].short, poptions[a].long>>
                          # <<poptions[b].short, poptions[b].long>>
        /\ \A a \in 1..Len(poptions) :
              poptions[a].short # None \/ poptions[a].long # None
        /\ Len(poptions) = Cardinality(firsts)
        /\ \A j \in firsts :
              poptions[Cardinality({i \in firsts : i <= j})]
                 = [short |-> plines[j].short,
                    long |-> plines[j].long,
                    description |-> plines[j].description,
                    option_type |-> IF plines[j].with_value
                                       THEN [tag |-> "String"]
                                       ELSE [tag |-> "Flag"],
                    required |-> FALSE,
                    default_value |-> <<>>]

\* three lines were read, the third repeating the pair of the first with
\* another description and another type, and one option was returned
C18_Witness ==
    /\ ppc = "done"
    /\ Len(plines) = 3
    /\ plines[1].short = plines[3].short
    /\ plines[1].long = plines[3].long
    /\ plines[1].description # plines[3].description
    /\ plines[1].with_value # plines[3].with_value
    /\ Len(poptions) = 1

--------------------------------------------------------------------------
(* Properties of infer_types and apply_numeric_constraints (SpecTypes) *)

\* C19: infer_types never reclassifies a Flag option: no step of it changes
\* the number of options or any field other than option_type, and an option
\* that is Flag before a step is Flag after it.
C19_InferTypesKeepsFlags ==
    [][tpc = "infer" =>
          /\ Len(toptions') = Len(toptions)
          /\ \A i \in 1..Len(toptions) :
                /\ toptions'[i].short = toptions[i].short
                /\ toptions'[i].long = toptions[i].long
                /\ toptions'[i].description = toptions[i].description
                /\ toptions'[i].required = toptions[i].required
                /\ toptions'[i].default_value = toptions[i].default_value
                /\ toptions[i].option_type.tag = "Flag"
                      => toptions'[i].option_type = Flag]_vars

\* infer_types has returned and left as Flag an option whose name matches
\* a rule of the table
C19_Witness ==
    /\ tpc = "load"
    /\ \E i \in 1..Len(toptions) :
          /\ toptions[i].option_type = Flag
          /\ \E r \in 1..Len(patterns) :
                /\ patterns[r].pattern_type = "numeric"
                /\ matches_pattern(extract_option_name(toptions[i]),
                                   patterns[r])

\* C20: for a String option infer_type gives the type of the matching rule
\* of highest priority, the first listed among those of equal priority, and
\* the default type when no rule matches; in partial-match mode a rule whose
\* keywords are all shorter than min_keyword_length does not match.
C20_HighestPriorityMatchWins ==
    [][(/\ tpc = "infer"
        /\ tidx <= Len(toptions)
        /\ toptions[tidx].option_type.tag = "String") =>
          LET name == extract_option_name(toptions[tidx])
              matching == {r \in 1..Len(patterns) :
                              matches_pattern(name, patterns[r])}
              wins(r) ==
                  \A q \in matching :
                      \/ patterns[r].priority > patterns[q].priority
                      \/ /\ patterns[r].priority = patterns[q].priority
                         /\ r <= q
          IN  /\ matching = {} =>
                    toptions'[tidx].option_type
                       = pattern_type_to_option_type(default_type)
              /\ \A r \in matching :
                    wins(r) =>
                       toptions'[tidx].option_type
                          = pattern_type_to_option_type(
                                patterns[r].pattern_type)
              /\ \A r \in 1..Len(patterns) :
                    (/\ settings.partial_match
                     /\ \A k \in 1..Len(patterns[r].keywords) :
                           Len(patterns[r].keywords[k])
                              < settings.min_keyword_length)
                       => r \notin matching]_vars

\* the table lists a path rule of priority 1 before a numeric rule of
\* priority 2, both match the option, and the option became Numeric
C20_Witness ==
    /\ tpc = "load"
    /\ Len(toptions) = 1
    /\ Len(patterns) = 2
    /\ patterns[1].pattern_type = "path" /\ patterns[1].priority = 1
    /\ patterns[2].pattern_type = "numeric" /\ patterns[2].priority = 2
    /\ matches_pattern(extract_option_name(toptions[1]), patterns[1])
    /\ matches_pattern(extract_option_name(toptions[1]), patterns[2])
    /\ toptions[1].option_type = Numeric(None, None)

\* C17: every Numeric option has min and max both set or both unset: both
\* unset right after type inference and when the constraint table failed to
\* load, both set by apply_numeric_constraints, to the bounds of a constraint
\* with a matching alias or, when none matches, to the default bounds.
C17_NumericBoundsTogether ==
    \A i \in 1..Len(toptions) :
        LET t == toptions[i].option_type
        IN  t.tag = "Numeric" =>
              /\ (t.min = None) <=> (t.max = None)
              /\ (tpc \in {"infer", "load"} \/ ncfg = "Err") =>
                    t.min = None
              /\ (tpc = "apply" /\ i < tidx) \/ (tpc = "done" /\ ncfg = "Ok")
                    => \/ \E constraint \in NumericConstraints :
                             /\ AliasMatches(constraint, toptions[i])
                             /\ t = Numeric(Some(constraint.min),
                                            Some(constraint.max))
                       \/ /\ \A constraint \in NumericConstraints :
                                ~AliasMatches(constraint, toptions[i])
                          /\ t = Numeric(
                                   Some(DefaultNumericConstraints.min),
                                   Some(DefaultNumericConstraints.max))

\* apply_numeric_constraints has returned having given a Numeric option
\* without a matching alias the default bounds
C17_Witness ==
    /\ tpc = "done"
    /\ ncfg = "Ok"
    /\ \E i \in 1..Len(toptions) :
          toptions[i].option_type
             = Numeric(Some(DefaultNumericConstraints.min),
                       Some(DefaultNumericConstraints.max))

\* C28: apply_numeric_constraints is deterministic: two runs on the same
\* options and the same tables assign the same bounds, so whichever entry of
\* the table the loop meets first among those with an alias in the option's
\* name, the bounds it assigns are the same.
C28_BoundsIndependentOfOrder ==
    (/\ tpc = "apply"
     /\ tidx <= Len(toptions)
     /\ toptions[tidx].option_type.tag = "Numeric")
        => \A first, other \in NumericConstraints :
              (/\ AliasMatches(first, toptions[tidx])
               /\ AliasMatches(other, toptions[tidx]))
                  => first.min = other.min /\ first.max = other.max

--------------------------------------------------------------------------
(* Properties of the configuration caches (SpecCache) *)

\* C21 as stated: each of the three tables is read from disk and parsed at
\* most once per process.
C21_ReadAtMostOnce ==
    \A c \in Caches : reads[c] <= 1

\* C21: under any interleaving of threads calling the three loaders, each
\* cache is assigned a parsed table at most once per process; a file is read
\* and a cache is assigned only by the thread that holds the cache's mutex;
\* a populated cache is never overwritten or cleared; and every caller that
\* gets a table gets a copy of the same one.  (A call whose read or parse
\* fails returns the error and leaves the cache empty, so the file may be
\* read again by a later call.)
C21_LoadedOnceUnderMutex ==
    /\ [](\A c \in Caches :
             /\ loads[c] <= 1
             /\ Cardinality(returned[c]) <= 1
             /\ cache[c] # None => returned[c] \subseteq {cache[c][1]})
    /\ [][\A c \in Caches :
             /\ (reads'[c] # reads[c] \/ cache'[c] # cache[c])
                   => \E t \in Threads :
                         /\ mutex[c] = t
                         /\ cthread[t].pc = "check"
                         /\ cthread[t].cache = c
             /\ cache[c] # None => cache'[c] = cache[c]]_vars

\* two threads have called the same loader: one read and parsed the file,
\* both have returned with a table
C21_Witness ==
    \E c \in Caches :
        /\ loads[c] = 1
        /\ reads[c] = 1
        /\ returned[c] # {}
        /\ ncalls >= 2
        /\ \A t \in Threads : cthread[t].pc = "idle"
        /\ \A d \in Caches \ {c} : reads[d] = 0

--------------------------------------------------------------------------
(* Properties of strategy selection (SpecStrategy) *)

\* C23: when the strategy chosen is Sequential (estimated total < 20, or at
\* most one category) generation is single-threaded: no category and no
\* test inside a category is generated on a parallel worker; CategoryLevel
\* is chosen when the workload is not small and (total < 100 or fewer than
\* 4 CPUs), TestLevel otherwise.
C23_SequentialIsSingleThreaded ==
    spc \in {"generate", "done"}
        => LET total == total_estimated_tests(Workload)
               small == total < 20 \/ Len(categories) <= 1
           IN  /\ strategy = "Sequential" <=> small
               /\ strategy = "CategoryLevel"
                     <=> (~small /\ (total < 100 \/ num_cpus < 4))
               /\ strategy = "TestLevel"
                     <=> (~small /\ total >= 100 /\ num_cpus >= 4)
               /\ strategy = "Sequential"
                     => \A r \in ran :
                           r.by = "caller" /\ r.tests_by = "caller"

--------------------------------------------------------------------------
(* Properties of run_tests (SpecBatsFair) *)

\* C30: run_tests terminates even when a suite hangs: after a suite exceeds
\* its timeout every remaining suite is still executed in sorted file order,
\* the timed-out suite is left out of the report, and run_tests eventually
\* returns the TestReport without waiting for the hung bats process.
C30_ReturnsDespiteHungSuite ==
    /\ [](/\ \A k \in 1..Len(suites) : suites[k] \notin timed_out
          /\ \A j, k \in 1..Len(suites) : j < k => suites[j] < suites[k]
          /\ bpc \in {"drop", "returned"} => bidx = Len(bats_files) + 1)
    /\ <>(bpc = "returned")

====
